---- MODULE Spec2Model ----
(***************************************************************************)
(* Chadsembler: the assembler pipeline (parser, semantic analyser, code    *)
(* generator) and the virtual machine, modelled as one state machine.      *)
(* Tokens are records [tokenType, tokenValue]; binary strings are          *)
(* sequences of the characters "0" and "1"; dictionaries that Python keeps *)
(* in insertion order are sequences of records.                            *)
(***************************************************************************)
EXTENDS Integers, Sequences, FiniteSets, TLC

(***************************************************************************)
(* Bounds of the explored input space.                                     *)
(***************************************************************************)
\* largest loop count n of the counted-loop program
MaxCount == 3
\* largest MEMORY option explored by the width specification
MaxMemory == 34
\* largest REGISTERS option explored by the width specification
MaxRegisters == 30
\* largest integer typed on standard input
MaxInput == 42
\* widest field considered when a width is looked for
MaxWidth == 40
\* largest magnitude of an integer encoded on its own
MaxDenary == 20
\* largest number of bits an integer is encoded in on its own
MaxBits == 6
\* largest number of tokens before the closing END of a stream handed to the
\* pre-parse on its own
MaxTokens == 2
\* largest number of parts a source text handed to the preprocessor is made of
MaxParts == 4
\* largest number of pieces an argument handed to the argument processor is
\* made of
MaxPieces == 5
\* largest number of digits after a register keyword lexed on its own
MaxDigits == 2
\* largest number of braces and labels of a stream handed to the pre-parse for
\* its block scopes
MaxBraces == 4
\* largest register number resolved on its own
MaxRegisterNumber == 40

(***************************************************************************)
(* typedtoken.py, symboltable.py, defaults.py                              *)
(***************************************************************************)
TypedToken ==
  [END |-> 0, INSTRUCTION |-> 1, ADDRESSING_MODE |-> 2, VALUE |-> 3,
   REGISTER |-> 4, LABEL |-> 5, SEPERATOR |-> 6, LEFT_BRACE |-> 7,
   RIGHT_BRACE |-> 8, ASSEMBLY_DIRECTIVE |-> 9, INVALID |-> 10]

SymbolTable ==
  [BRANCH_LABEL |-> 1, VARIABLE_LABEL |-> 2, PROCEDURE_LABEL |-> 3]

GLOBAL_INSTRUCTION_POOL_IDENTIFIER == ".MAIN"

DEFAULT_VARIABLE_VALUE == "0"

(***************************************************************************)
(* keywords.py                                                             *)
(***************************************************************************)
INSTRUCTION_SET ==
  [HLT |-> 0, ADD |-> 1, SUB |-> 2, STA |-> 3, NOP |-> 4, LDA |-> 5,
   BRA |-> 6, BRZ |-> 7, BRP |-> 8, INP |-> 9, OUT |-> 10, OUTC |-> 11,
   OUTB |-> 12, AND |-> 13, OR |-> 14, NOT |-> 15, XOR |-> 16, LSL |-> 17,
   LSR |-> 18, ASL |-> 19, ASR |-> 20, CSL |-> 21, CSR |-> 22, CSLC |-> 23,
   CSRC |-> 24, CALL |-> 25, RET |-> 26]

\* a table in which no instruction has the opcode 0
OPCODE_ABOVE_ZERO_TO_INSTRUCTION ==
  [o \in {INSTRUCTION_SET[k] : k \in DOMAIN INSTRUCTION_SET} \ {0} |->
     CHOOSE k \in DOMAIN INSTRUCTION_SET : INSTRUCTION_SET[k] = o]

OPCODE_TO_INSTRUCTION ==
  [o \in {INSTRUCTION_SET[k] : k \in DOMAIN INSTRUCTION_SET} |->
     CHOOSE k \in DOMAIN INSTRUCTION_SET : INSTRUCTION_SET[k] = o]

NUMBER_OF_INSTRUCTIONS == Cardinality(DOMAIN INSTRUCTION_SET)

NUMBER_OF_INSTRUCTION_OPERANDS ==
  [HLT |-> 0, NOP |-> 0, RET |-> 0,
   INP |-> 1, OUT |-> 1, OUTC |-> 1, OUTB |-> 1, CALL |-> 1,
   ADD |-> 2, SUB |-> 2, STA |-> 2, LDA |-> 2, BRA |-> 2, BRZ |-> 2,
   BRP |-> 2, AND |-> 2, OR |-> 2, NOT |-> 2, XOR |-> 2, LSL |-> 2,
   LSR |-> 2, ASL |-> 2, ASR |-> 2, CSL |-> 2, CSR |-> 2, CSLC |-> 2,
   CSRC |-> 2]

\* the data flow instructions without the store
inputAlone == {"INP"}

DATA_FLOW_INSTRUCTIONS == {"STA", "INP"}

EXPLICIT_SINGLE_OPERAND_INSTRUCTIONS == {"CALL"}

BRANCH_INSTRUCTIONS == {"BRA", "BRZ", "BRP"}

CALL_INSTRUCTIONS == {"CALL"}

INPUT_INSTRUCTIONS == {"INP"}

IMMEDIATE_ADDRESSING_MODE == "#"

DIRECT_ADDRESSING_MODE == "@"

INDIRECT_ADDRESSING_MODE == ">"

REGISTER_ADDRESSING_MODE == "%"

NUMBER_OF_ADDRESSING_MODES ==
  Cardinality({IMMEDIATE_ADDRESSING_MODE, DIRECT_ADDRESSING_MODE,
               INDIRECT_ADDRESSING_MODE, REGISTER_ADDRESSING_MODE})

ADDRESSING_MODE_TO_OPCODE ==
  (REGISTER_ADDRESSING_MODE :> 0) @@ (INDIRECT_ADDRESSING_MODE :> 1) @@
  (DIRECT_ADDRESSING_MODE :> 2) @@ (IMMEDIATE_ADDRESSING_MODE :> 3)

ACCUMULATOR == "ACC"

RETURN_REGISTER == "RR"

FLAGS_REGISTER == "FR"

PROGRAM_COUNTER == "PC"

SPECIAL_PURPOSE_REGISTERS ==
  [ACCUMULATOR |-> ACCUMULATOR, ACC |-> ACCUMULATOR,
   RETURNREGISTER |-> RETURN_REGISTER, RR |-> RETURN_REGISTER,
   FLAGSREGISTER |-> FLAGS_REGISTER, FR |-> FLAGS_REGISTER,
   PROGRAMCOUNTER |-> PROGRAM_COUNTER, PC |-> PROGRAM_COUNTER]

SPECIAL_PURPOSE_REGISTERS_OFFSET == [ACC |-> 1, PC |-> 2, RR |-> 3, FR |-> 4]

NUMBER_OF_SPECIAL_PURPOSE_REGISTERS ==
  Cardinality(DOMAIN SPECIAL_PURPOSE_REGISTERS_OFFSET)

(***************************************************************************)
(* binarystring.py                                                         *)
(***************************************************************************)
\* Python's abs()
abs(n) == IF n < 0 THEN -n ELSE n

\* bin(int(abs(denaryNumber)))[2:]
toBinary(denaryNumber) ==
  LET bin[n \in Nat] ==
        IF n < 2 THEN <<ToString(n)>> ELSE bin[n \div 2] \o <<ToString(n % 2)>>
  IN  bin[abs(denaryNumber)]

\* the least k with 2^k >= n: the width the written format gives a field of
\* n values, where the code takes the length of n in binary
ceilingOfLog2(denaryNumber) ==
  CHOOSE k \in 0..MaxWidth :
    /\ 2^k >= abs(denaryNumber)
    /\ \A j \in 0..(k - 1) : 2^j < abs(denaryNumber)

numberOfBits(denaryNumber) == Len(toBinary(denaryNumber))

\* a pad that adds nothing, leaving a value as wide as its digits
withoutPadding(binaryString, padNumber, padValue) == binaryString

padBinary(binaryString, padNumber, padValue) ==
  [i \in 1..padNumber |-> padValue] \o binaryString

unsignedInteger(denaryValue, bits) ==
  LET n == IF bits < 1 THEN 1 ELSE bits
      binaryAsString == toBinary(denaryValue % (2^n))
  IN  padBinary(binaryAsString, n - Len(binaryAsString), "0")

\* an encoding of the magnitude alone, without a sign bit
magnitudeOnly(denaryValue, bits) == unsignedInteger(abs(denaryValue), bits)

signedInteger(denaryValue, bits) ==
  LET n == IF bits < 2 THEN 2 ELSE bits
      signBit == IF denaryValue < 0 THEN "1" ELSE "0"
      binaryAsString == toBinary(abs(denaryValue) % (2^(n - 1)))
  IN  <<signBit>> \o padBinary(binaryAsString, n - Len(binaryAsString) - 1, "0")

\* int(unsignedInteger, 2): read[i] is the value of the first i digits
readUnsignedInteger(s) ==
  LET read[i \in Nat] ==
        IF i = 0 THEN 0 ELSE 2 * read[i - 1] + (IF s[i] = "1" THEN 1 ELSE 0)
  IN  read[Len(s)]

readSignedInteger(s) ==
  (IF s[1] = "0" THEN 1 ELSE -1) * readUnsignedInteger(Tail(s))

\* binaryString[:-1]
Front(s) == SubSeq(s, 1, Len(s) - 1)

\* every shift returns <<carry bit, new value>>
\* a shift to the left that reports no bit shifted out
logicalShiftLeftWithoutCarry(s) == <<"0", Tail(s) \o <<"0">>>>

logicalShiftLeft(s) == <<s[1], Tail(s) \o <<"0">>>>

logicalShiftRight(s) == <<s[Len(s)], <<"0">> \o Front(s)>>

arithmeticShiftLeft(s) == <<s[2], Tail(s) \o <<s[1]>>>>

arithmeticShiftRight(s) == <<s[Len(s)], <<s[1]>> \o Front(s)>>

circularShiftLeft(s) == Tail(s) \o <<s[1]>>

circularShiftRight(s) == <<s[Len(s)]>> \o Front(s)

circularShiftLeftWithCarry(s, carryBit) ==
  <<s[1], Tail(s) \o <<carryBit[Len(carryBit)]>>>>

circularShiftRightWithCarry(s, carryBit) ==
  <<s[Len(s)], <<carryBit[Len(carryBit)]>> \o Front(s)>>

(***************************************************************************)
(* Tokens and Python built-ins                                             *)
(***************************************************************************)
\* TypedToken(tokenType, tokenValue, row, column); row and column only feed
\* error messages and are left out
Token(tokenType, tokenValue) == [tokenType |-> tokenType, tokenValue |-> tokenValue]

\* the decimal spellings Python's int() reads as n
Spellings(n) ==
  IF n >= 0
  THEN {ToString(n), "+" \o ToString(n), "0" \o ToString(n), "00" \o ToString(n),
        "+0" \o ToString(n)} \cup (IF n = 0 THEN {"-0"} ELSE {})
  ELSE {"-" \o ToString(-n), "-0" \o ToString(-n)}

\* the integers a program text of the model can spell
Denary == -99..99

\* Python's int(str)
int(s) == CHOOSE n \in Denary : s \in Spellings(n)

\* str.upper() on the identifiers of the model
convertToCasing(s) ==
  CASE s = "loop" -> "LOOP"
    [] s = "count" -> "COUNT"
    [] s = "sum" -> "SUM"
    [] OTHER -> s

(***************************************************************************)
(* lexer.py: a text is a sequence of characters                            *)
(***************************************************************************)
\* the Python string of a sequence of characters
RECURSIVE string(_)
string(characters) ==
  IF characters = <<>> THEN "" ELSE Head(characters) \o string(Tail(characters))

VALUE_CHARACTERS == {"1", "2", "3", "4", "5", "6", "7", "8", "9", "0"}

\* the keys of KeyWords.GENERAL_PURPOSE_REGISTER
GENERAL_PURPOSE_REGISTER ==
  {<<"R", "E", "G", "I", "S", "T", "E", "R">>, <<"R", "E", "G">>, <<"R">>}

\* no substring names a general purpose register
neverGeneralPurposeRegister(tokenSubstring) == <<>>

\* the integer suffix of a general purpose register keyword, the empty
\* string for any other substring; the substring does not begin with a digit
determineTypeOfRegisterKeyword(tokenSubstring) ==
  LET upperSubstringIndex == Len(tokenSubstring)
      \* the characters after position i are all digits
      integers(i) ==
        \A j \in (i + 1)..upperSubstringIndex : tokenSubstring[j] \in VALUE_CHARACTERS
      lowerSubstringIndex ==
        CHOOSE i \in 1..upperSubstringIndex :
          integers(i) /\ tokenSubstring[i] \notin VALUE_CHARACTERS
      keywordSubstring == SubSeq(tokenSubstring, 1, lowerSubstringIndex)
      integerSuffixSubstring ==
        SubSeq(tokenSubstring, lowerSubstringIndex + 1, upperSubstringIndex)
  IN  IF keywordSubstring \in GENERAL_PURPOSE_REGISTER /\ integerSuffixSubstring # <<>>
      THEN integerSuffixSubstring
      ELSE <<>>

(***************************************************************************)
(* symboltable.py: a dictionary label -> entry in insertion order          *)
(***************************************************************************)
\* Defaults.NULL as a symbol table entry: no token carries the empty label
NULL == [label |-> "", labelValue |-> -1, labelType |-> -1]

\* SymbolTable.get: the entry of a label, or NULL
get(symbolTable, label) ==
  LET key == convertToCasing(label)
  IN  IF \E i \in 1..Len(symbolTable) : symbolTable[i].label = key
      THEN symbolTable[CHOOSE i \in 1..Len(symbolTable) : symbolTable[i].label = key]
      ELSE NULL

\* SymbolTable.insert: the key is upper-cased; an existing key keeps its place
insert(symbolTable, label, labelValue, labelType) ==
  LET key == convertToCasing(label)
      entry == [label |-> key, labelValue |-> labelValue, labelType |-> labelType]
  IN  IF get(symbolTable, key) = NULL
      THEN Append(symbolTable, entry)
      ELSE [i \in 1..Len(symbolTable) |->
              IF symbolTable[i].label = key THEN entry ELSE symbolTable[i]]

\* InstructionPool(identifier, tokenStream, symbolTable)
InstructionPool(identifier, tokenStream, symbolTable) ==
  [identifier |-> identifier, tokenStream |-> tokenStream, symbolTable |-> symbolTable]

(***************************************************************************)
(* parser.py                                                               *)
(***************************************************************************)
\* the first of a non-empty set of indexes: where a loop over the tokens next
\* does more than step on
firstIndex(indexes) == CHOOSE i \in indexes : \A j \in indexes : i <= j

\* the element of a set of one element: {e : x \in {d}} computes d once for
\* all the places of e that use it
only(set) == CHOOSE element \in set : TRUE

generateNextValidToken(tokenType) ==
  CASE tokenType = TypedToken.END ->
         {TypedToken.END, TypedToken.INSTRUCTION, TypedToken.LABEL,
          TypedToken.RIGHT_BRACE, TypedToken.LEFT_BRACE}
    [] tokenType = TypedToken.INSTRUCTION ->
         {TypedToken.END, TypedToken.ADDRESSING_MODE, TypedToken.VALUE,
          TypedToken.REGISTER, TypedToken.LABEL, TypedToken.RIGHT_BRACE}
    [] tokenType = TypedToken.ADDRESSING_MODE ->
         {TypedToken.VALUE, TypedToken.REGISTER, TypedToken.LABEL}
    [] tokenType \in {TypedToken.VALUE, TypedToken.REGISTER} ->
         {TypedToken.END, TypedToken.SEPERATOR, TypedToken.RIGHT_BRACE,
          TypedToken.LEFT_BRACE}
    [] tokenType = TypedToken.LABEL ->
         {TypedToken.END, TypedToken.SEPERATOR, TypedToken.INSTRUCTION,
          TypedToken.RIGHT_BRACE, TypedToken.LEFT_BRACE,
          TypedToken.ASSEMBLY_DIRECTIVE}
    [] tokenType = TypedToken.SEPERATOR ->
         {TypedToken.ADDRESSING_MODE, TypedToken.VALUE, TypedToken.REGISTER,
          TypedToken.LABEL}
    [] tokenType \in {TypedToken.RIGHT_BRACE, TypedToken.LEFT_BRACE} ->
         {TypedToken.END}
    [] tokenType = TypedToken.ASSEMBLY_DIRECTIVE ->
         {TypedToken.END, TypedToken.VALUE}
    [] OTHER -> {}

\* a token that neither is checked against the scope nor changes it
validateNoBlockScopeToken(currentToken, scopeOpen) ==
  [scopeOpen |-> scopeOpen, errors |-> <<>>]

\* the errors one token adds and the block scope state after it;
\* scopeOpen stands for previousBlockScopeToken is not NULL
validateBlockScopeToken(currentToken, scopeOpen) ==
  CASE currentToken.tokenType = TypedToken.LEFT_BRACE ->
         IF scopeOpen
         THEN [scopeOpen |-> TRUE, errors |-> <<"Cannot open new block scope until previous one was closed">>]
         ELSE [scopeOpen |-> TRUE, errors |-> <<>>]
    [] currentToken.tokenType = TypedToken.RIGHT_BRACE ->
         IF scopeOpen
         THEN [scopeOpen |-> FALSE, errors |-> <<>>]
         ELSE [scopeOpen |-> FALSE, errors |-> <<"Attempting to close a block scope when no block scope was opened to begin with">>]
    [] OTHER -> [scopeOpen |-> scopeOpen, errors |-> <<>>]

\* previousToken when the loop of __preparse is at currentIndex
previousToken(stream, currentIndex) ==
  IF currentIndex = 1 THEN Token(TypedToken.END, "/") ELSE stream[currentIndex - 1]

\* the same check with the first token of the stream let through
unexpectedAfterFirst(stream, currentIndex) ==
  /\ currentIndex > 1
  /\ stream[currentIndex].tokenType
       \notin generateNextValidToken(stream[currentIndex - 1].tokenType)

\* whether the token at currentIndex is one the next valid tokens exclude
unexpectedToken(stream, currentIndex) ==
  stream[currentIndex].tokenType
    \notin generateNextValidToken(previousToken(stream, currentIndex).tokenType)

\* the loop of __preparse from currentIndex on; a token that is no brace and
\* is expected changes neither the scope nor the errors
RECURSIVE preparseFrom(_, _, _, _)
preparseFrom(stream, currentIndex, scopeOpen, errors) ==
  LET acting == {i \in currentIndex..Len(stream) :
                   \/ stream[i].tokenType \in {TypedToken.LEFT_BRACE,
                                                TypedToken.RIGHT_BRACE}
                   \/ unexpectedToken(stream, i)}
      step(i, scope) ==
        preparseFrom(stream, i + 1, scope.scopeOpen,
                     errors \o scope.errors \o
                     (IF unexpectedToken(stream, i)
                      THEN <<"Unexpected token">> ELSE <<>>))
  IN  IF acting = {}
      THEN IF scopeOpen THEN Append(errors, "Block scope was opened but never closed")
           ELSE errors
      ELSE step(firstIndex(acting),
                validateBlockScopeToken(stream[firstIndex(acting)], scopeOpen))

\* the parsing errors of the pre-parse
preparse(stream) == preparseFrom(stream, 1, FALSE, <<>>)

\* index of the RIGHT_BRACE closing the procedure that begins at beginningIndex,
\* 0 when the stream ends first (IndexError)
RECURSIVE getProcedureEnd(_, _)
getProcedureEnd(stream, beginningIndex) ==
  IF beginningIndex > Len(stream) THEN 0
  ELSE IF stream[beginningIndex].tokenType = TypedToken.RIGHT_BRACE THEN beginningIndex
  ELSE getProcedureEnd(stream, beginningIndex + 1)

\* self.__instructionPools[label] = InstructionPool(...)
setInstructionPool(pools, pool) ==
  IF \E i \in 1..Len(pools) : pools[i].identifier = pool.identifier
  THEN [i \in 1..Len(pools) |->
          IF pools[i].identifier = pool.identifier THEN pool ELSE pools[i]]
  ELSE Append(pools, pool)

RECURSIVE getInstructionPoolsFrom(_, _, _, _)
getInstructionPoolsFrom(stream, currentIndex, globalTokens, pools) ==
  IF currentIndex > Len(stream)
  THEN [crashed |-> FALSE, globalTokens |-> globalTokens, pools |-> pools]
  ELSE IF stream[currentIndex].tokenType # TypedToken.LEFT_BRACE
  THEN \* every token before the next LEFT_BRACE is appended to the global tokens
       LET braces == {i \in currentIndex..Len(stream) :
                        stream[i].tokenType = TypedToken.LEFT_BRACE}
           upTo == IF braces = {} THEN Len(stream) + 1 ELSE firstIndex(braces)
       IN  getInstructionPoolsFrom(stream, upTo,
             globalTokens \o SubSeq(stream, currentIndex, upTo - 1), pools)
  ELSE LET n == Len(globalTokens)
           twice == n > 0 /\ globalTokens[n].tokenType = TypedToken.END
           popped == IF twice THEN n - 1 ELSE n
           closing == getProcedureEnd(stream, currentIndex + 2)
       IN  IF popped < 1 \/ closing = 0
           THEN [crashed |-> TRUE, globalTokens |-> globalTokens, pools |-> pools]
           ELSE getInstructionPoolsFrom(stream, closing + 2,
                  SubSeq(globalTokens, 1, popped - 1),
                  setInstructionPool(pools,
                    InstructionPool(globalTokens[popped].tokenValue,
                                    SubSeq(stream, currentIndex + 2, closing - 1),
                                    <<>>)))

getInstructionPools(stream) == getInstructionPoolsFrom(stream, 1, <<>>, <<>>)

\* the checks of a label met before an instruction, and no others
parseBranchLabel(labelSymbol, labelContext) ==
  IF labelSymbol = NULL \/ labelContext # TypedToken.INSTRUCTION THEN <<>>
  ELSE <<"Duplicate branch label found">>

\* the errors __parseLabel records for a label met in labelContext
parseLabel(labelSymbol, labelContext) ==
  CASE labelSymbol = NULL -> <<>>
    [] labelContext = TypedToken.INSTRUCTION
         /\ labelSymbol.labelType = SymbolTable.BRANCH_LABEL ->
         <<"Duplicate branch label found">>
    [] labelContext = TypedToken.INSTRUCTION
         /\ labelSymbol.labelType = SymbolTable.VARIABLE_LABEL ->
         <<"Attempting to redeclare a variable label to a branch label">>
    [] labelContext = TypedToken.INSTRUCTION
         /\ labelSymbol.labelType = SymbolTable.PROCEDURE_LABEL ->
         <<"CANNOT REDECLARE PROCEDURE LABEL">>
    [] labelContext = TypedToken.ASSEMBLY_DIRECTIVE
         /\ labelSymbol.labelType = SymbolTable.BRANCH_LABEL ->
         <<"Attempting to redeclare a branch label to a variable label">>
    [] labelContext = TypedToken.ASSEMBLY_DIRECTIVE
         /\ labelSymbol.labelType = SymbolTable.PROCEDURE_LABEL ->
         <<"Attempting to redeclare a procedure label to a variable label">>
    [] OTHER -> <<>>

\* index of the first END at or after beginningIndex, 0 when there is none
\* (the pops then run off the list: IndexError)
RECURSIVE removeVariableEnd(_, _)
removeVariableEnd(tokenStream, beginningIndex) ==
  IF beginningIndex > Len(tokenStream) THEN 0
  ELSE IF tokenStream[beginningIndex].tokenType = TypedToken.END THEN beginningIndex
  ELSE removeVariableEnd(tokenStream, beginningIndex + 1)

\* one pass over a pool; state is the record
\* [crashed, tokenStream, symbolTable, errors]
RECURSIVE updateInstructionPoolSymbolTableFrom(_, _, _)
updateInstructionPoolSymbolTableFrom(st, currentIndex, indexedInstructionCount) ==
  IF currentIndex > Len(st.tokenStream) THEN st
  ELSE LET token == st.tokenStream[currentIndex]
       IN
       IF token.tokenType # TypedToken.LABEL
       THEN \* up to the next label only the END tokens act: each adds one to
            \* the count
            LET labels == {i \in currentIndex..Len(st.tokenStream) :
                             st.tokenStream[i].tokenType = TypedToken.LABEL}
                upTo == IF labels = {} THEN Len(st.tokenStream) + 1 ELSE firstIndex(labels)
            IN  updateInstructionPoolSymbolTableFrom(st, upTo,
                  indexedInstructionCount
                  + Cardinality({i \in currentIndex..(upTo - 1) :
                                   st.tokenStream[i].tokenType = TypedToken.END}))
       ELSE IF currentIndex + 1 > Len(st.tokenStream)
       THEN [st EXCEPT !.crashed = TRUE]
       ELSE LET tokenAfter == st.tokenStream[currentIndex + 1]
                errors == st.errors \o
                          parseLabel(get(st.symbolTable, token.tokenValue),
                                     tokenAfter.tokenType)
            IN
            IF tokenAfter.tokenType = TypedToken.INSTRUCTION
            THEN updateInstructionPoolSymbolTableFrom(
                   [st EXCEPT !.errors = errors,
                              !.symbolTable = insert(st.symbolTable, token.tokenValue,
                                                     indexedInstructionCount,
                                                     SymbolTable.BRANCH_LABEL)],
                   currentIndex + 1, indexedInstructionCount)
            ELSE IF tokenAfter.tokenType # TypedToken.ASSEMBLY_DIRECTIVE
            THEN updateInstructionPoolSymbolTableFrom(st, currentIndex + 1,
                                                      indexedInstructionCount)
            ELSE LET end == removeVariableEnd(st.tokenStream, currentIndex)
                 IN  IF currentIndex + 2 > Len(st.tokenStream) \/ end = 0
                     THEN [st EXCEPT !.crashed = TRUE]
                     ELSE updateInstructionPoolSymbolTableFrom(
                            [st EXCEPT
                               !.errors = errors,
                               !.symbolTable =
                                 insert(st.symbolTable, token.tokenValue,
                                   IF st.tokenStream[currentIndex + 2].tokenType
                                        = TypedToken.VALUE
                                   THEN int(st.tokenStream[currentIndex + 2].tokenValue)
                                   ELSE int(DEFAULT_VARIABLE_VALUE),
                                   SymbolTable.VARIABLE_LABEL),
                               !.tokenStream =
                                 SubSeq(st.tokenStream, 1, currentIndex - 1) \o
                                 SubSeq(st.tokenStream, end, Len(st.tokenStream))],
                            currentIndex + 1, indexedInstructionCount)

updateInstructionPoolSymbolTable(instructionPool, errors) ==
  updateInstructionPoolSymbolTableFrom(
    [crashed |-> FALSE, tokenStream |-> instructionPool.tokenStream,
     symbolTable |-> instructionPool.symbolTable, errors |-> errors], 1, 0)

\* the pools of the procedures after their symbol tables were updated, in
\* dictionary order; state is [crashed, pools, errors]
RECURSIVE updateProcedureSymbolTables(_, _)
updateProcedureSymbolTables(st, i) ==
  IF i > Len(st.pools) \/ st.crashed THEN st
  ELSE LET next(r) ==
             updateProcedureSymbolTables(
               [crashed |-> r.crashed, errors |-> r.errors,
                pools |-> [st.pools EXCEPT ![i] =
                             InstructionPool(st.pools[i].identifier, r.tokenStream,
                                             r.symbolTable)]],
               i + 1)
       IN  next(updateInstructionPoolSymbolTable(st.pools[i], st.errors))

\* every procedure label enters the global symbol table first
RECURSIVE insertProcedureLabels(_, _, _)
insertProcedureLabels(symbolTable, pools, i) ==
  IF i > Len(pools) THEN symbolTable
  ELSE insertProcedureLabels(
         insert(symbolTable, pools[i].identifier, -1, SymbolTable.PROCEDURE_LABEL),
         pools, i + 1)

updateSymbolTables(globalTokens, pools) ==
  LET updated(g, p) ==
        [crashed |-> p.crashed, errors |-> p.errors, instructionPools |-> p.pools,
         globalInstructionPool |->
           InstructionPool(GLOBAL_INSTRUCTION_POOL_IDENTIFIER, g.tokenStream,
                           g.symbolTable)]
      procedures(g) ==
        updated(g, updateProcedureSymbolTables(
                     [crashed |-> g.crashed, pools |-> pools, errors |-> g.errors], 1))
  IN  procedures(updateInstructionPoolSymbolTable(
                   InstructionPool(GLOBAL_INSTRUCTION_POOL_IDENTIFIER, globalTokens,
                                   insertProcedureLabels(<<>>, pools, 1)), <<>>))

\* Parser.parse: outcome is "parsed", "exit" (sys.exit(-1) in
\* __getParsingErrors) or "crash" (an uncaught IndexError)
parse(stream) ==
  LET noPools == [instructionPools |-> <<>>,
                  globalInstructionPool |->
                    InstructionPool(GLOBAL_INSTRUCTION_POOL_IDENTIFIER, <<>>, <<>>)]
      updated(tables) ==
        IF tables.crashed
        THEN [outcome |-> "crash", errors |-> tables.errors] @@ noPools
        ELSE IF tables.errors # <<>>
        THEN [outcome |-> "exit", errors |-> tables.errors] @@ noPools
        ELSE [outcome |-> "parsed", errors |-> <<>>,
              instructionPools |-> tables.instructionPools,
              globalInstructionPool |-> tables.globalInstructionPool]
      split(s) ==
        IF s.crashed
        THEN [outcome |-> "crash", errors |-> <<>>] @@ noPools
        ELSE updated(updateSymbolTables(s.globalTokens, s.pools))
      preparsed(preErrors) ==
        IF preErrors # <<>>
        THEN [outcome |-> "exit", errors |-> preErrors] @@ noPools
        ELSE split(getInstructionPools(stream))
  IN  preparsed(preparse(stream))

(***************************************************************************)
(* semanticanalyser.py                                                     *)
(***************************************************************************)
\* Operand(addressingMode, operandValue)
Operand(addressingMode, operandValue) ==
  [addressingMode |-> addressingMode, operandValue |-> operandValue]

\* list.insert(index, item), index counted from 1
InsertAt(list, index, item) ==
  SubSeq(list, 1, index - 1) \o <<item>> \o SubSeq(list, index, Len(list))

OperandValues == {TypedToken.VALUE, TypedToken.REGISTER, TypedToken.LABEL}

\* number of operand values up to the END of the statement, -1 when the pool
\* ends before an END is met (IndexError)
RECURSIVE countNumberOfOperands(_, _)
countNumberOfOperands(tokenStream, beginningOfOperands) ==
  IF beginningOfOperands > Len(tokenStream) THEN -1
  ELSE IF tokenStream[beginningOfOperands].tokenType = TypedToken.END THEN 0
  ELSE LET rest == countNumberOfOperands(tokenStream, beginningOfOperands + 1)
       IN  IF rest = -1 THEN -1
           ELSE rest + (IF tokenStream[beginningOfOperands].tokenType \in OperandValues
                        THEN 1 ELSE 0)

\* the operand at a position and the token stream with the default operand or
\* the default addressing mode inserted
RECURSIVE getOperand(_, _)
getOperand(tokenStream, beginningOfOperand) ==
  LET b == beginningOfOperand
      operandToken == tokenStream[b]
  IN  CASE operandToken.tokenType = TypedToken.SEPERATOR ->
             getOperand(tokenStream, b + 1)
        [] operandToken.tokenType = TypedToken.END ->
             LET inferred ==
                   InsertAt(InsertAt(tokenStream, b,
                                     Token(TypedToken.REGISTER, ACCUMULATOR)),
                            b, Token(TypedToken.ADDRESSING_MODE, REGISTER_ADDRESSING_MODE))
                 separated == InsertAt(inferred, b, Token(TypedToken.SEPERATOR, ","))
             IN  IF inferred[b - 1].tokenType \in OperandValues
                 THEN [tokenStream |-> separated,
                       operand |-> Operand(separated[b + 1], separated[b + 2])]
                 ELSE [tokenStream |-> inferred,
                       operand |-> Operand(inferred[b], inferred[b + 1])]
        [] operandToken.tokenType \in OperandValues ->
             LET direct == InsertAt(tokenStream, b,
                             Token(TypedToken.ADDRESSING_MODE, DIRECT_ADDRESSING_MODE))
             IN  [tokenStream |-> direct, operand |-> Operand(direct[b], direct[b + 1])]
        [] OTHER ->
             [tokenStream |-> tokenStream,
              operand |-> Operand(tokenStream[b], tokenStream[b + 1])]

\* the local entry of a label, else the global one, else NULL
lookup(label, localTable, globalTable) ==
  IF get(localTable, label) = NULL THEN get(globalTable, label)
  ELSE get(localTable, label)

analyseProcedureOperand(procedureOperand, localTable, globalTable) ==
  IF lookup(procedureOperand.operandValue.tokenValue, localTable, globalTable) = NULL
  THEN <<"Attempting to call a non-existent procedure">>
  ELSE <<>>

analyseVariableOperand(variableOperand, localTable, globalTable) ==
  LET labelSymbol == lookup(variableOperand.operandValue.tokenValue,
                            localTable, globalTable)
  IN  CASE labelSymbol = NULL ->
             <<"Attempting to use an undeclared label as a variable">>
        [] labelSymbol.labelType = SymbolTable.BRANCH_LABEL ->
             <<"Attempting to use a branch label as an instruction operand">>
        [] labelSymbol.labelType = SymbolTable.PROCEDURE_LABEL ->
             <<"Attempting to use a procedure label as an instruction operand">>
        [] OTHER -> <<>>

analyseRegisterOperand(registerOperand) ==
  (IF registerOperand.addressingMode.tokenValue # REGISTER_ADDRESSING_MODE
   THEN <<"Non-register addressing mode paired with a register">> ELSE <<>>)
  \o
  (IF registerOperand.operandValue.tokenValue = "0"
   THEN <<"Cannot access general purpose register 0">> ELSE <<>>)

analyseBranchOperand(branchOperand, localTable) ==
  IF branchOperand.addressingMode.tokenValue = DIRECT_ADDRESSING_MODE
     /\ branchOperand.operandValue.tokenType = TypedToken.LABEL
  THEN IF get(localTable, branchOperand.operandValue.tokenValue) = NULL
       THEN <<"Attempting to branch to non-existent location">>
       ELSE <<>>
  ELSE (IF branchOperand.addressingMode.tokenValue # DIRECT_ADDRESSING_MODE
        THEN <<"Source operand in branch instruction must be addressed in DIRECT mode">>
        ELSE <<>>)
       \o
       (IF branchOperand.operandValue.tokenType # TypedToken.LABEL
        THEN <<"Source operand in branch instruction must be a branch label">>
        ELSE <<>>)

analyseOutputInstruction(operand, localTable, globalTable) ==
  CASE operand.operandValue.tokenType = TypedToken.LABEL ->
         analyseVariableOperand(operand, localTable, globalTable)
    [] operand.operandValue.tokenType = TypedToken.REGISTER ->
         analyseRegisterOperand(operand)
    [] OTHER -> <<>>

analyseCallInstruction(operand, localTable, globalTable) ==
  LET labelSymbol == lookup(operand.operandValue.tokenValue, localTable, globalTable)
  IN  IF operand.operandValue.tokenType # TypedToken.LABEL
      THEN <<"Call instruction operand must be a label">>
      ELSE IF labelSymbol = NULL
      THEN <<"Attempting to call non-existent procedure">>
      ELSE IF labelSymbol.labelType # SymbolTable.PROCEDURE_LABEL
      THEN <<"Call instruction operand must be a procedure label">>
      ELSE IF operand.addressingMode.tokenValue # DIRECT_ADDRESSING_MODE
      THEN <<"Call instruction operand must be a procedure label addressed in direct addressing mode">>
      ELSE analyseProcedureOperand(operand, localTable, globalTable)

analyseInputInstruction(operand) ==
  IF operand.addressingMode.tokenValue # REGISTER_ADDRESSING_MODE
  THEN <<"Input instruction operand must be addressed in register addressing mode">>
  ELSE analyseRegisterOperand(operand)

analyseAddressingMode(operand) ==
  IF operand.addressingMode.tokenValue = REGISTER_ADDRESSING_MODE
     /\ operand.operandValue.tokenType # TypedToken.REGISTER
  THEN <<"Non-register paired with register addressing mode">>
  ELSE <<>>

analyseOperand(operand, operandNumber, localTable, globalTable) ==
  analyseAddressingMode(operand) \o
  (IF operandNumber = 2
   THEN IF operand.operandValue.tokenType = TypedToken.REGISTER
        THEN analyseRegisterOperand(operand)
        ELSE <<"Second operand must be a register">>
   ELSE CASE operand.operandValue.tokenType = TypedToken.LABEL ->
               analyseVariableOperand(operand, localTable, globalTable)
          [] operand.operandValue.tokenType = TypedToken.REGISTER ->
               analyseRegisterOperand(operand)
          [] OTHER -> <<>>)

analyseSingleOperandInstruction(instruction, beginningOfOperands, tokenStream, localTable, globalTable) ==
  IF tokenStream[beginningOfOperands].tokenType = TypedToken.END
     /\ instruction.tokenValue \in EXPLICIT_SINGLE_OPERAND_INSTRUCTIONS
  THEN [tokenStream |-> tokenStream,
        errors |-> <<"Operand must explicitly be present">>]
  ELSE LET analysed(got) ==
             [tokenStream |-> got.tokenStream,
              errors |->
                analyseAddressingMode(got.operand) \o
                (CASE instruction.tokenValue \in {"OUT", "OUTC", "OUTB"} ->
                        analyseOutputInstruction(got.operand, localTable, globalTable)
                   [] instruction.tokenValue = "CALL" ->
                        analyseCallInstruction(got.operand, localTable, globalTable)
                   [] instruction.tokenValue = "INP" ->
                        analyseInputInstruction(got.operand)
                   [] OTHER -> <<>>)]
       IN  analysed(getOperand(tokenStream, beginningOfOperands))

\* __analyseBranchInstruction, __analyseDataFlowInstruction and
\* __analyseGenericDoubleOperandInstruction: all three fetch the source operand
\* and then the destination operand two tokens on
analyseDoubleOperandInstruction(instruction, beginningOfOperands, tokenStream, localTable, globalTable) ==
  IF tokenStream[beginningOfOperands].tokenType = TypedToken.END
  THEN [tokenStream |-> tokenStream,
        errors |-> <<"The SOURCE operand for any double operand instruction must be explicitly stated">>]
  ELSE LET analysed(source, destination, second) ==
             [tokenStream |-> destination.tokenStream,
              errors |->
                IF instruction.tokenValue \in BRANCH_INSTRUCTIONS
                THEN analyseBranchOperand(source.operand, localTable) \o second
                ELSE IF instruction.tokenValue \in DATA_FLOW_INSTRUCTIONS
                THEN (IF source.operand.addressingMode.tokenValue
                           = IMMEDIATE_ADDRESSING_MODE
                      THEN <<"Cannot address a data flow instruction in immediate mode">>
                      ELSE <<>>)
                     \o analyseOperand(source.operand, 1, localTable, globalTable)
                     \o second
                ELSE analyseOperand(source.operand, 1, localTable, globalTable)
                     \o second]
           withDestination(source, destination) ==
             analysed(source, destination,
                      analyseOperand(destination.operand, 2, localTable, globalTable))
           withSource(source) ==
             withDestination(source,
                             getOperand(source.tokenStream, beginningOfOperands + 2))
       IN  withSource(getOperand(tokenStream, beginningOfOperands))

\* result [crashed, tokenStream, errors]
analyseInstruction(beginningOfInstruction, tokenStream, localTable, globalTable) ==
  LET chadsemblyInstruction == tokenStream[beginningOfInstruction]
      numberOfOperands == countNumberOfOperands(tokenStream, beginningOfInstruction)
      maximumOperandsForInstruction ==
        NUMBER_OF_INSTRUCTION_OPERANDS[chadsemblyInstruction.tokenValue]
  IN  IF numberOfOperands = -1
      THEN [crashed |-> TRUE, tokenStream |-> tokenStream, errors |-> <<>>]
      ELSE IF numberOfOperands > maximumOperandsForInstruction
      THEN [crashed |-> FALSE, tokenStream |-> tokenStream,
            errors |-> <<"Too many operands given for instruction">>]
      ELSE IF maximumOperandsForInstruction = 0
      THEN [crashed |-> FALSE, tokenStream |-> tokenStream, errors |-> <<>>]
      ELSE IF maximumOperandsForInstruction = 1
      THEN [crashed |-> FALSE] @@
           analyseSingleOperandInstruction(chadsemblyInstruction,
             beginningOfInstruction + 1, tokenStream, localTable, globalTable)
      ELSE [crashed |-> FALSE] @@
           analyseDoubleOperandInstruction(chadsemblyInstruction,
             beginningOfInstruction + 1, tokenStream, localTable, globalTable)

\* state is [crashed, tokenStream, errors]
RECURSIVE semanticallyAnalyseInstructionPoolFrom(_, _, _, _)
semanticallyAnalyseInstructionPoolFrom(st, currentIndex, localTable, globalTable) ==
  IF currentIndex > Len(st.tokenStream) \/ st.crashed THEN st
  ELSE IF st.tokenStream[currentIndex].tokenType # TypedToken.INSTRUCTION
  THEN \* the tokens up to the next instruction are stepped over
       LET instructions == {i \in currentIndex..Len(st.tokenStream) :
                              st.tokenStream[i].tokenType = TypedToken.INSTRUCTION}
       IN  IF instructions = {} THEN st
           ELSE semanticallyAnalyseInstructionPoolFrom(
                  st, firstIndex(instructions), localTable, globalTable)
  ELSE LET next(r) ==
             semanticallyAnalyseInstructionPoolFrom(
               [crashed |-> r.crashed, tokenStream |-> r.tokenStream,
                errors |-> st.errors \o r.errors],
               currentIndex + 1, localTable, globalTable)
       IN  next(analyseInstruction(currentIndex, st.tokenStream,
                                   localTable, globalTable))

semanticallyAnalyseInstructionPool(instructionPool, globalTable, errors) ==
  semanticallyAnalyseInstructionPoolFrom(
    [crashed |-> FALSE, tokenStream |-> instructionPool.tokenStream,
     errors |-> errors],
    1, instructionPool.symbolTable, globalTable)

\* the procedure pools in dictionary order; state is [crashed, pools, errors]
RECURSIVE analyseProcedurePools(_, _, _)
analyseProcedurePools(st, i, globalTable) ==
  IF i > Len(st.pools) \/ st.crashed THEN st
  ELSE LET next(r) ==
             analyseProcedurePools(
               [crashed |-> r.crashed, errors |-> r.errors,
                pools |-> [st.pools EXCEPT ![i].tokenStream = r.tokenStream]],
               i + 1, globalTable)
       IN  next(semanticallyAnalyseInstructionPool(st.pools[i], globalTable,
                                                   st.errors))

\* SemanticAnalyser.semanticAnalyse: outcome is "analysed", "exit"
\* (sys.exit(-1) in __getSemanticAnalysisErrors) or "crash"
semanticAnalyse(pools, globalPool) ==
  LET analysed(g, p) ==
        [outcome |-> IF p.crashed THEN "crash"
                     ELSE IF p.errors # <<>> THEN "exit" ELSE "analysed",
         errors |-> p.errors,
         instructionPools |-> p.pools,
         globalInstructionPool |-> [globalPool EXCEPT !.tokenStream = g.tokenStream]]
      procedures(g) ==
        analysed(g, analyseProcedurePools(
                      [crashed |-> g.crashed, pools |-> pools, errors |-> g.errors],
                      1, globalPool.symbolTable))
  IN  procedures(semanticallyAnalyseInstructionPool(globalPool,
                                                    globalPool.symbolTable, <<>>))

(***************************************************************************)
(* codegenerator.py                                                        *)
(***************************************************************************)
calculateNumberOfOperandBits(configurationTable) ==
  LET numberOfRegisters ==
        configurationTable.REGISTERS + NUMBER_OF_SPECIAL_PURPOSE_REGISTERS
      numberOfMemoryAddresses == configurationTable.MEMORY
  IN  (IF numberOfMemoryAddresses > numberOfRegisters
       THEN numberOfBits(numberOfMemoryAddresses)
       ELSE numberOfBits(numberOfRegisters)) + 1

\* CodeGenerator.__init__: the field widths of an instruction and the number
\* of general purpose registers
CodeGenerator(configurationTable) ==
  LET m == numberOfBits(NUMBER_OF_INSTRUCTIONS)
      a == numberOfBits(NUMBER_OF_ADDRESSING_MODES)
      o == calculateNumberOfOperandBits(configurationTable)
  IN  [numberOfMachineOperationBits |-> m,
       numberOfAddressingModeBits |-> a,
       numberOfOperandBits |-> o,
       totalNumberOfInstructionBits |-> m + a + (2 * o),
       numberOfGeneralPurposeRegisters |-> configurationTable.REGISTERS]

\* the remainder the code generator's comment gives up: value % (upperBound + 1)
modulo(lowerBound, upperBound, value) == value % (upperBound + 1)

RECURSIVE wrapAround(_, _, _)
wrapAround(lowerBound, upperBound, value) ==
  IF value > upperBound
  THEN wrapAround(lowerBound, upperBound, (lowerBound - 1) + (value - upperBound))
  ELSE value

countNumberOfInstructions(instructionPool) ==
  Cardinality({i \in 1..Len(instructionPool.tokenStream) :
                 instructionPool.tokenStream[i].tokenType = TypedToken.INSTRUCTION})

countNumberOfVariables(instructionPool) ==
  Cardinality({i \in 1..Len(instructionPool.symbolTable) :
                 instructionPool.symbolTable[i].labelType = SymbolTable.VARIABLE_LABEL})

updateBranchLabelAddresses(symbolTable, currentOffset) ==
  [i \in 1..Len(symbolTable) |->
     IF symbolTable[i].labelType = SymbolTable.BRANCH_LABEL
     THEN [symbolTable[i] EXCEPT !.labelValue = @ + currentOffset]
     ELSE symbolTable[i]]

\* state is [pools, globalTable]; the procedures in dictionary order
RECURSIVE pregenerateProcedureLabelIndexesFrom(_, _, _)
pregenerateProcedureLabelIndexesFrom(st, i, currentProcedureOffset) ==
  IF i > Len(st.pools) THEN st
  ELSE pregenerateProcedureLabelIndexesFrom(
         [pools |-> [st.pools EXCEPT ![i].symbolTable =
                       updateBranchLabelAddresses(@, currentProcedureOffset)],
          globalTable |->
            [k \in 1..Len(st.globalTable) |->
               IF st.globalTable[k].label = convertToCasing(st.pools[i].identifier)
               THEN [st.globalTable[k] EXCEPT !.labelValue = currentProcedureOffset]
               ELSE st.globalTable[k]]],
         i + 1,
         currentProcedureOffset + countNumberOfInstructions(st.pools[i])
                                + countNumberOfVariables(st.pools[i]))

pregenerateProcedureLabelIndexes(pools, globalPool) ==
  pregenerateProcedureLabelIndexesFrom(
    [pools |-> pools, globalTable |-> globalPool.symbolTable], 1,
    countNumberOfInstructions(globalPool) + countNumberOfVariables(globalPool))

\* the symbol table with its variables numbered from offset on and the
\* promises <<index, initial value>> made for them; state is
\* [symbolTable, promises, offset]
RECURSIVE pregenerateVariablesFrom(_, _)
pregenerateVariablesFrom(st, k) ==
  IF k > Len(st.symbolTable) THEN st
  ELSE IF st.symbolTable[k].labelType # SymbolTable.VARIABLE_LABEL
  THEN pregenerateVariablesFrom(st, k + 1)
  ELSE pregenerateVariablesFrom(
         [symbolTable |-> [st.symbolTable EXCEPT ![k].labelValue = st.offset],
          promises |-> Append(st.promises, <<st.offset, st.symbolTable[k].labelValue>>),
          offset |-> st.offset + 1],
         k + 1)

\* the variables numbered from the offset itself
pregenerateVariablesBeforeInstructions(instructionPool, promises, currentOffset) ==
  pregenerateVariablesFrom(
    [symbolTable |-> instructionPool.symbolTable, promises |-> promises,
     offset |-> currentOffset], 1)

pregenerateVariableLabelIndexesForInstructionPool(instructionPool, promises, currentOffset) ==
  pregenerateVariablesFrom(
    [symbolTable |-> instructionPool.symbolTable, promises |-> promises,
     offset |-> currentOffset + countNumberOfInstructions(instructionPool)], 1)

\* state is [pools, promises, offset]
RECURSIVE pregenerateVariableLabelIndexesFrom(_, _)
pregenerateVariableLabelIndexesFrom(st, i) ==
  IF i > Len(st.pools) THEN st
  ELSE LET r == pregenerateVariableLabelIndexesForInstructionPool(
                  st.pools[i], st.promises, st.offset)
       IN  pregenerateVariableLabelIndexesFrom(
             [pools |-> [st.pools EXCEPT ![i].symbolTable = r.symbolTable],
              promises |-> r.promises, offset |-> r.offset],
             i + 1)

\* result [crashed, value]: AttributeError when neither table knows the label
resolveLabel(labelToken, localTable, globalTable) ==
  IF get(localTable, labelToken.tokenValue) # NULL
  THEN [crashed |-> FALSE, value |-> get(localTable, labelToken.tokenValue).labelValue]
  ELSE IF get(globalTable, labelToken.tokenValue) # NULL
  THEN [crashed |-> FALSE, value |-> get(globalTable, labelToken.tokenValue).labelValue]
  ELSE [crashed |-> TRUE, value |-> 0]

\* result [crashed, value]: KeyError when a long register name has no offset
resolveRegister(registerToken, numberOfGeneralPurposeRegisters) ==
  IF registerToken.tokenValue \in DOMAIN SPECIAL_PURPOSE_REGISTERS
  THEN IF registerToken.tokenValue \in DOMAIN SPECIAL_PURPOSE_REGISTERS_OFFSET
       THEN [crashed |-> FALSE,
             value |-> numberOfGeneralPurposeRegisters
                       + SPECIAL_PURPOSE_REGISTERS_OFFSET[registerToken.tokenValue]]
       ELSE [crashed |-> TRUE, value |-> 0]
  ELSE [crashed |-> FALSE,
        value |-> wrapAround(1, numberOfGeneralPurposeRegisters,
                             int(registerToken.tokenValue))]

\* __resolveOperand with __resolveValue
resolveOperand(operand, localTable, globalTable, numberOfGeneralPurposeRegisters) ==
  CASE operand.operandValue.tokenType = TypedToken.LABEL ->
         resolveLabel(operand.operandValue, localTable, globalTable)
    [] operand.operandValue.tokenType = TypedToken.VALUE ->
         [crashed |-> FALSE, value |-> int(operand.operandValue.tokenValue)]
    [] operand.operandValue.tokenType = TypedToken.REGISTER ->
         resolveRegister(operand.operandValue, numberOfGeneralPurposeRegisters)
    [] OTHER -> [crashed |-> TRUE, value |-> 0]

\* result [crashed, code]
convertToChadsemblyMachineCode(chadsemblyInstruction, sourceOperand, destinationOperand, localTable, globalTable, gen) ==
  LET instructionOpcode == INSTRUCTION_SET[chadsemblyInstruction.tokenValue]
      addressingModeOpcode ==
        ADDRESSING_MODE_TO_OPCODE[sourceOperand.addressingMode.tokenValue]
      source == resolveOperand(sourceOperand, localTable, globalTable,
                               gen.numberOfGeneralPurposeRegisters)
      destination == resolveOperand(destinationOperand, localTable, globalTable,
                                    gen.numberOfGeneralPurposeRegisters)
  IN  IF sourceOperand.addressingMode.tokenValue \notin DOMAIN ADDRESSING_MODE_TO_OPCODE
         \/ source.crashed \/ destination.crashed
      THEN [crashed |-> TRUE, code |-> <<>>]
      ELSE [crashed |-> FALSE,
            code |-> unsignedInteger(instructionOpcode, gen.numberOfMachineOperationBits)
                     \o unsignedInteger(addressingModeOpcode, gen.numberOfAddressingModeBits)
                     \o signedInteger(source.value, gen.numberOfOperandBits)
                     \o signedInteger(destination.value, gen.numberOfOperandBits)]

\* a default operand addressed in DIRECT mode
directOperand == Operand(Token(4, DIRECT_ADDRESSING_MODE), Token(3, "0"))

\* Operand(TypedToken(4, '%'), TypedToken(3, '0')): the token types of the
\* default operand are written as numbers in the source
defaultOperand == Operand(Token(4, "%"), Token(3, "0"))

generateChadsemblyInstruction(beginningOfInstruction, tokenStream, localTable, globalTable, gen) ==
  LET b == beginningOfInstruction
      chadsemblyInstruction == tokenStream[b]
      numberOfInstructionOperands ==
        NUMBER_OF_INSTRUCTION_OPERANDS[chadsemblyInstruction.tokenValue]
  IN  IF numberOfInstructionOperands = 0
      THEN convertToChadsemblyMachineCode(chadsemblyInstruction, defaultOperand,
             defaultOperand, localTable, globalTable, gen)
      ELSE IF numberOfInstructionOperands = 1
      THEN IF b + 2 > Len(tokenStream) THEN [crashed |-> TRUE, code |-> <<>>]
           ELSE convertToChadsemblyMachineCode(chadsemblyInstruction,
                  Operand(tokenStream[b + 1], tokenStream[b + 2]),
                  defaultOperand, localTable, globalTable, gen)
      ELSE IF b + 5 > Len(tokenStream) THEN [crashed |-> TRUE, code |-> <<>>]
           ELSE convertToChadsemblyMachineCode(chadsemblyInstruction,
                  Operand(tokenStream[b + 1], tokenStream[b + 2]),
                  Operand(tokenStream[b + 4], tokenStream[b + 5]),
                  localTable, globalTable, gen)

\* state is [crashed, code]: the image so far
RECURSIVE generateInstructionsFrom(_, _, _, _, _)
generateInstructionsFrom(st, currentIndex, instructionPool, globalTable, gen) ==
  IF currentIndex > Len(instructionPool.tokenStream) \/ st.crashed THEN st
  ELSE IF instructionPool.tokenStream[currentIndex].tokenType # TypedToken.INSTRUCTION
  THEN \* the tokens up to the next instruction are stepped over
       LET instructions == {i \in currentIndex..Len(instructionPool.tokenStream) :
                              instructionPool.tokenStream[i].tokenType
                                = TypedToken.INSTRUCTION}
       IN  IF instructions = {} THEN st
           ELSE generateInstructionsFrom(st, firstIndex(instructions), instructionPool,
                                         globalTable, gen)
  ELSE LET next(r) ==
             generateInstructionsFrom(
               [crashed |-> r.crashed, code |-> Append(st.code, r.code)],
               currentIndex + 1, instructionPool, globalTable, gen)
       IN  next(generateChadsemblyInstruction(currentIndex,
                  instructionPool.tokenStream, instructionPool.symbolTable,
                  globalTable, gen))

generateCodeForInstructionPool(st, instructionPool, globalTable, gen) ==
  LET withVariables(r) ==
        [crashed |-> r.crashed,
         code |-> r.code \o
                  [k \in 1..countNumberOfVariables(instructionPool) |->
                     [j \in 1..gen.totalNumberOfInstructionBits |-> "0"]]]
  IN  withVariables(generateInstructionsFrom(st, 1, instructionPool, globalTable, gen))

RECURSIVE generateCodeForProcedures(_, _, _, _, _)
generateCodeForProcedures(st, i, pools, globalTable, gen) ==
  IF i > Len(pools) \/ st.crashed THEN st
  ELSE generateCodeForProcedures(
         generateCodeForInstructionPool(st, pools[i], globalTable, gen),
         i + 1, pools, globalTable, gen)

\* int() of a promise is the promised value: the parser stored an integer
RECURSIVE resolveVariablePromises(_, _, _)
resolveVariablePromises(code, promises, gen) ==
  IF promises = <<>> THEN code
  ELSE resolveVariablePromises(
         [code EXCEPT ![Head(promises)[1] + 1] =
            signedInteger(Head(promises)[2], gen.totalNumberOfInstructionBits)],
         Tail(promises), gen)

\* CodeGenerator.generateCode: result
\* [crashed, code, instructionPools, globalInstructionPool]
generateCode(pools, globalPool, gen) ==
  LET resolved(variables, newGlobalPool, generated) ==
        [crashed |-> generated.crashed,
         code |-> IF generated.crashed THEN <<>>
                  ELSE resolveVariablePromises(generated.code, variables.promises, gen),
         instructionPools |-> variables.pools,
         globalInstructionPool |-> newGlobalPool]
      generated(variables, newGlobalPool) ==
        resolved(variables, newGlobalPool,
          generateCodeForProcedures(
            generateCodeForInstructionPool([crashed |-> FALSE, code |-> <<>>],
              newGlobalPool, newGlobalPool.symbolTable, gen),
            1, variables.pools, newGlobalPool.symbolTable, gen))
      variables(procedures, globalVariables) ==
        generated(
          pregenerateVariableLabelIndexesFrom(
            [pools |-> procedures.pools, promises |-> globalVariables.promises,
             offset |-> globalVariables.offset], 1),
          [globalPool EXCEPT !.symbolTable = globalVariables.symbolTable])
      globalVariables(procedures) ==
        variables(procedures,
          pregenerateVariableLabelIndexesForInstructionPool(
            [globalPool EXCEPT !.symbolTable = procedures.globalTable], <<>>, 0))
  IN  globalVariables(pregenerateProcedureLabelIndexes(pools, globalPool))

(***************************************************************************)
(* virtualmachine.py                                                       *)
(***************************************************************************)
\* dictionary assignment memoryPool[key] = value: the key is created when absent
store(memoryPool, key, value) == (key :> value) @@ memoryPool

\* (numberOfGeneralPurposeRegisters + offset of the register) * -1
registerAddress(register, numberOfGeneralPurposeRegisters) ==
  (numberOfGeneralPurposeRegisters + SPECIAL_PURPOSE_REGISTERS_OFFSET[register]) * (-1)

\* the number of memory addresses the VM builds and writes back into the
\* configuration table
numberOfMemoryAddresses(gen) == 2^(gen.numberOfOperandBits - 1)

generateMemoryPool(configurationTable, gen) ==
  LET defaultValue == [j \in 1..gen.totalNumberOfInstructionBits |-> "0"]
      totalNumberOfRegisters ==
        configurationTable.REGISTERS + NUMBER_OF_SPECIAL_PURPOSE_REGISTERS
  IN  [key \in (0..(numberOfMemoryAddresses(gen) - 1))
                 \cup {register * (-1) : register \in 1..totalNumberOfRegisters}
         |-> defaultValue]

\* a loader that copies the byte code to the addresses 1, 2, ...
loaderFromOne(memoryPool, chadsemblyByteCode) ==
  [key \in DOMAIN memoryPool |->
     IF key \in 1..Len(chadsemblyByteCode)
     THEN chadsemblyByteCode[key] ELSE memoryPool[key]]

\* the memory pool with the byte code copied to the addresses 0, 1, ...
loader(memoryPool, chadsemblyByteCode) ==
  [key \in DOMAIN memoryPool |->
     IF key \in 0..(Len(chadsemblyByteCode) - 1)
     THEN chadsemblyByteCode[key + 1] ELSE memoryPool[key]]

\* A resolved source operand is [fault, none, value]: fault names the uncaught
\* exception ("" when there is none), none says that Python's None came back.
Resolved(value) == [fault |-> "", none |-> FALSE, value |-> value]

KeyError == [fault |-> "KeyError", none |-> FALSE, value |-> 0]

None == [fault |-> "", none |-> TRUE, value |-> 0]

\* readSignedInteger(memoryPool[key])
readCell(memoryPool, key) ==
  IF key \in DOMAIN memoryPool THEN Resolved(readSignedInteger(memoryPool[key]))
  ELSE KeyError

resolveForValue(memoryPool, addressingMode, operandValue) ==
  CASE addressingMode = ADDRESSING_MODE_TO_OPCODE[DIRECT_ADDRESSING_MODE] ->
         readCell(memoryPool, operandValue)
    [] addressingMode = ADDRESSING_MODE_TO_OPCODE[INDIRECT_ADDRESSING_MODE] ->
         IF operandValue \in DOMAIN memoryPool
         THEN readCell(memoryPool, readSignedInteger(memoryPool[operandValue]))
         ELSE KeyError
    [] addressingMode = ADDRESSING_MODE_TO_OPCODE[REGISTER_ADDRESSING_MODE] ->
         readCell(memoryPool, operandValue * (-1))
    [] addressingMode = ADDRESSING_MODE_TO_OPCODE[IMMEDIATE_ADDRESSING_MODE] ->
         Resolved(operandValue)
    [] OTHER -> None

resolveForAddress(memoryPool, addressingMode, operandValue) ==
  CASE addressingMode = ADDRESSING_MODE_TO_OPCODE[INDIRECT_ADDRESSING_MODE] ->
         readCell(memoryPool, operandValue)
    [] addressingMode = ADDRESSING_MODE_TO_OPCODE[REGISTER_ADDRESSING_MODE] ->
         Resolved(operandValue * (-1))
    [] OTHER -> Resolved(operandValue)

resolveForBinary(memoryPool, addressingMode, operandValue, gen) ==
  CASE addressingMode = ADDRESSING_MODE_TO_OPCODE[DIRECT_ADDRESSING_MODE] ->
         IF operandValue \in DOMAIN memoryPool
         THEN Resolved(memoryPool[operandValue]) ELSE KeyError
    [] addressingMode = ADDRESSING_MODE_TO_OPCODE[INDIRECT_ADDRESSING_MODE] ->
         IF operandValue \in DOMAIN memoryPool
            /\ readSignedInteger(memoryPool[operandValue]) \in DOMAIN memoryPool
         THEN Resolved(memoryPool[readSignedInteger(memoryPool[operandValue])])
         ELSE KeyError
    [] addressingMode = ADDRESSING_MODE_TO_OPCODE[REGISTER_ADDRESSING_MODE] ->
         IF operandValue * (-1) \in DOMAIN memoryPool
         THEN Resolved(memoryPool[operandValue * (-1)]) ELSE KeyError
    [] addressingMode = ADDRESSING_MODE_TO_OPCODE[IMMEDIATE_ADDRESSING_MODE] ->
         Resolved(signedInteger(operandValue, gen.totalNumberOfInstructionBits))
    [] OTHER -> None

\* the opcode is known to be one of OPCODE_TO_INSTRUCTION here
resolveSourceOperand(memoryPool, machineOperation, addressingMode, sourceOperand, gen) ==
  LET chadsemblyInstruction == OPCODE_TO_INSTRUCTION[machineOperation]
  IN  IF chadsemblyInstruction \in
           DATA_FLOW_INSTRUCTIONS \cup BRANCH_INSTRUCTIONS \cup CALL_INSTRUCTIONS
      THEN resolveForAddress(memoryPool, addressingMode, sourceOperand)
      ELSE IF chadsemblyInstruction = "OUTB"
      THEN resolveForBinary(memoryPool, addressingMode, sourceOperand, gen)
      ELSE resolveForValue(memoryPool, addressingMode, sourceOperand)

resolveDestinationOperand(destinationOperand) == destinationOperand * (-1)

\* the four fields of an instruction word:
\* [machineOperation, addressingMode, sourceOperand, destinationOperand]
decode(chadsemblyInstruction, gen) ==
  LET m == gen.numberOfMachineOperationBits
      a == gen.numberOfAddressingModeBits
      o == gen.numberOfOperandBits
  IN  [machineOperation |-> readUnsignedInteger(SubSeq(chadsemblyInstruction, 1, m)),
       addressingMode |->
         readUnsignedInteger(SubSeq(chadsemblyInstruction, m + 1, m + a)),
       sourceOperand |->
         readSignedInteger(SubSeq(chadsemblyInstruction, m + a + 1, m + a + o)),
       destinationOperand |->
         readSignedInteger(SubSeq(chadsemblyInstruction, m + a + o + 1,
                                  m + a + o + o))]

(***************************************************************************)
(* machineoperations.py                                                    *)
(***************************************************************************)
\* Python's &, | and ^ on integers of any sign; operation is the truth table
\* of the operator on one bit
RECURSIVE bitwise(_, _, _)
bitwise(operation, x, y) ==
  IF x \in {0, -1} /\ y \in {0, -1}
  THEN -operation[(x % 2) + 1][(y % 2) + 1]
  ELSE 2 * bitwise(operation, x \div 2, y \div 2) + operation[(x % 2) + 1][(y % 2) + 1]

\* an arithmetic unit that only subtracts
subtract(instruction, destinationValue, sourceValue) ==
  destinationValue - sourceValue

\* the value an arithmetic or logic instruction computes from the destination
\* value and the source value
compute(instruction, destinationValue, sourceValue) ==
  CASE instruction = "ADD" -> destinationValue + sourceValue
    [] instruction = "SUB" -> destinationValue - sourceValue
    [] instruction = "AND" ->
         bitwise(<<<<0, 0>>, <<0, 1>>>>, destinationValue, sourceValue)
    [] instruction = "OR" ->
         bitwise(<<<<0, 1>>, <<1, 1>>>>, destinationValue, sourceValue)
    [] instruction = "XOR" ->
         bitwise(<<<<0, 1>>, <<1, 0>>>>, destinationValue, sourceValue)

\* for count in range(sourceOperand): one shift per round; the state is
\* <<flag, value>> with the flag a string of one character
RECURSIVE shift(_, _, _, _)
shift(instruction, count, newFlagValue, newValue) ==
  IF count <= 0 THEN <<newFlagValue, newValue>>
  ELSE only(
         {shift(instruction, count - 1, <<r[1]>>, r[2]) :
            r \in {CASE instruction = "LSL" -> logicalShiftLeft(newValue)
                     [] instruction = "LSR" -> logicalShiftRight(newValue)
                     [] instruction = "ASL" -> arithmeticShiftLeft(newValue)
                     [] instruction = "ASR" -> arithmeticShiftRight(newValue)
                     [] instruction = "CSL" ->
                          <<newFlagValue[1], circularShiftLeft(newValue)>>
                     [] instruction = "CSR" ->
                          <<newFlagValue[1], circularShiftRight(newValue)>>
                     [] instruction = "CSLC" ->
                          circularShiftLeftWithCarry(newValue, newFlagValue)
                     [] instruction = "CSRC" ->
                          circularShiftRightWithCarry(newValue, newFlagValue)}})

\* str of a binary string, as print() writes it
RECURSIVE str(_)
str(binaryString) ==
  IF binaryString = <<>> THEN "" ELSE Head(binaryString) \o str(Tail(binaryString))

\* chr(n) written as its code point
chr(n) == "U+" \o ToString(n)

\* whether int() accepts a line of input
isInteger(line) == \E n \in Denary : line \in Spellings(n)

\* The outcome of a machine operation: raised names what ended the run
\* ("" when the run goes on), output is what was printed.
Outcome(raised, memoryPool, output) ==
  [raised |-> raised, memoryPool |-> memoryPool, output |-> output]

\* a call that branches and keeps no return address
branchOnly(memoryPool, sourceOperand, gen) ==
  store(memoryPool,
        registerAddress(PROGRAM_COUNTER, gen.numberOfGeneralPurposeRegisters),
        signedInteger(sourceOperand, gen.totalNumberOfInstructionBits))

\* a return that leaves the program counter where the fetch left it
fallThrough(memoryPool, gen) == memoryPool

\* MachineOperations.CALL: the memory pool after the call
CALL(memoryPool, sourceOperand, gen) ==
  LET G == gen.numberOfGeneralPurposeRegisters
  IN  store(store(memoryPool, registerAddress(RETURN_REGISTER, G),
                  memoryPool[registerAddress(PROGRAM_COUNTER, G)]),
            registerAddress(PROGRAM_COUNTER, G),
            signedInteger(sourceOperand, gen.totalNumberOfInstructionBits))

\* MachineOperations.RET: the memory pool after the return
RET(memoryPool, gen) ==
  LET G == gen.numberOfGeneralPurposeRegisters
  IN  store(memoryPool, registerAddress(PROGRAM_COUNTER, G),
            memoryPool[registerAddress(RETURN_REGISTER, G)])

\* MachineOperations.instructionMapping[machineOperation](source, destination);
\* line is the line read by input()
MachineOperations(instruction, memoryPool, source, destinationOperand, gen, line) ==
  LET W == gen.totalNumberOfInstructionBits
      G == gen.numberOfGeneralPurposeRegisters
      programCounterAddress == registerAddress(PROGRAM_COUNTER, G)
      flagRegisterAddress == registerAddress(FLAGS_REGISTER, G)
      sourceOperand == source.value
      known == destinationOperand \in DOMAIN memoryPool
      jump == store(memoryPool, programCounterAddress, signedInteger(sourceOperand, W))
  IN  CASE instruction = "HLT" -> Outcome("exit(0)", memoryPool, <<>>)
        [] instruction \in {"NOP"} -> Outcome("", memoryPool, <<>>)
        [] instruction \in {"ADD", "SUB", "AND", "OR", "XOR"} ->
             IF ~known THEN Outcome("KeyError", memoryPool, <<>>)
             ELSE IF source.none THEN Outcome("TypeError", memoryPool, <<>>)
             ELSE Outcome("", store(memoryPool, destinationOperand,
                    signedInteger(
                      compute(instruction,
                              readSignedInteger(memoryPool[destinationOperand]),
                              sourceOperand), W)), <<>>)
        [] instruction = "STA" ->
             IF ~known THEN Outcome("KeyError", memoryPool, <<>>)
             ELSE Outcome("", store(memoryPool, sourceOperand,
                                    memoryPool[destinationOperand]), <<>>)
        [] instruction = "LDA" ->
             IF source.none THEN Outcome("TypeError", memoryPool, <<>>)
             ELSE Outcome("", store(memoryPool, destinationOperand,
                                    signedInteger(sourceOperand, W)), <<>>)
        [] instruction = "BRA" -> Outcome("", jump, <<>>)
        [] instruction = "BRZ" ->
             IF ~known THEN Outcome("KeyError", memoryPool, <<>>)
             ELSE IF readSignedInteger(memoryPool[destinationOperand]) = 0
             THEN Outcome("", jump, <<>>)
             ELSE Outcome("", memoryPool, <<>>)
        [] instruction = "BRP" ->
             IF ~known THEN Outcome("KeyError", memoryPool, <<>>)
             ELSE IF readSignedInteger(memoryPool[destinationOperand]) > -1
             THEN Outcome("", jump, <<>>)
             ELSE Outcome("", memoryPool, <<>>)
        [] instruction = "INP" ->
             IF isInteger(line)
             THEN Outcome("", store(memoryPool, sourceOperand,
                                    signedInteger(int(line), W)), <<>>)
             ELSE Outcome("runtime error", memoryPool, <<>>)
        [] instruction = "OUT" ->
             Outcome("", memoryPool,
                     <<IF source.none THEN "None" ELSE ToString(sourceOperand)>>)
        [] instruction = "OUTC" ->
             IF source.none THEN Outcome("TypeError", memoryPool, <<>>)
             ELSE IF sourceOperand \notin 0..1114111
             THEN Outcome("ValueError", memoryPool, <<>>)
             ELSE Outcome("", memoryPool, <<chr(sourceOperand)>>)
        [] instruction = "OUTB" ->
             Outcome("", memoryPool,
                     <<IF source.none THEN "None" ELSE str(sourceOperand)>>)
        [] instruction = "NOT" ->
             IF source.none THEN Outcome("TypeError", memoryPool, <<>>)
             ELSE Outcome("", store(memoryPool, destinationOperand,
                                    unsignedInteger(-sourceOperand - 1, W)), <<>>)
        [] instruction \in {"LSL", "LSR", "ASL", "ASR", "CSLC", "CSRC"} ->
             IF ~known THEN Outcome("KeyError", memoryPool, <<>>)
             ELSE IF source.none THEN Outcome("TypeError", memoryPool, <<>>)
             ELSE LET r == shift(instruction, sourceOperand,
                                 <<memoryPool[flagRegisterAddress][W]>>,
                                 memoryPool[destinationOperand])
                  IN  Outcome("",
                        store(store(memoryPool, flagRegisterAddress,
                                    padBinary(r[1], W - 1, "0")),
                              destinationOperand, r[2]), <<>>)
        [] instruction \in {"CSL", "CSR"} ->
             IF ~known THEN Outcome("KeyError", memoryPool, <<>>)
             ELSE IF source.none THEN Outcome("TypeError", memoryPool, <<>>)
             ELSE Outcome("", store(memoryPool, destinationOperand,
                                    shift(instruction, sourceOperand, <<"0">>,
                                          memoryPool[destinationOperand])[2]), <<>>)
        [] instruction = "CALL" -> Outcome("", CALL(memoryPool, sourceOperand, gen), <<>>)
        [] instruction = "RET" -> Outcome("", RET(memoryPool, gen), <<>>)

(***************************************************************************)
(* argumentprocessor.py and preprocessor.py: an argument, a directive and  *)
(* a source text are sequences of characters                               *)
(***************************************************************************)
LINE_BREAK_CHARACTERS == {"\n", "\r", "\f"}

\* " \t\v": the vertical tab has no spelling here and is in no text explored
WHITE_SPACE_CHARACTERS == {" ", "\t"}

DIRECTIVE_PREFIX == "!"

COMMENT_PREFIX == ";"

TOKEN_DELIMITER == "="

\* Defaults.convertToCasing on a sequence of characters: str.upper()
upperCased(characters) ==
  LET small == <<"a", "b", "c", "d", "e", "f", "g", "h", "i", "j", "k", "l", "m",
                 "n", "o", "p", "q", "r", "s", "t", "u", "v", "w", "x", "y", "z">>
      capital == <<"A", "B", "C", "D", "E", "F", "G", "H", "I", "J", "K", "L", "M",
                   "N", "O", "P", "Q", "R", "S", "T", "U", "V", "W", "X", "Y", "Z">>
      upperCase(character) ==
        IF \E i \in 1..26 : small[i] = character
        THEN capital[CHOOSE i \in 1..26 : small[i] = character]
        ELSE character
  IN  [i \in 1..Len(characters) |-> upperCase(characters[i])]

\* Python's int() on a sequence of digits
integer(digits) ==
  LET valueOf(character) == CHOOSE d \in 0..9 : ToString(d) = character
      read[i \in Nat] ==
        IF i = 0 THEN 0 ELSE 10 * read[i - 1] + valueOf(digits[i])
  IN  read[Len(digits)]

\* _tokeniseArgument and _getTokens: the values of the tokens of an argument,
\* split on line breaks, white space and the delimiter, a leading directive
\* prefix skipped
tokeniseArgument(currentArgument) ==
  LET substringTerminatingCharacters ==
        LINE_BREAK_CHARACTERS \cup WHITE_SPACE_CHARACTERS \cup {TOKEN_DELIMITER}
      argumentLength == Len(currentArgument)
      RECURSIVE getTokens(_)
      getTokens(beginningIndex) ==
        LET starts == {i \in beginningIndex..argumentLength :
                         currentArgument[i] \notin substringTerminatingCharacters}
            ends(lowerSubstringIndex) ==
              {i \in lowerSubstringIndex..argumentLength :
                 currentArgument[i] \in substringTerminatingCharacters}
            token(lowerSubstringIndex, upperIndex) ==
              <<upperCased(SubSeq(currentArgument, lowerSubstringIndex, upperIndex - 1))>>
              \o getTokens(upperIndex)
            from(lowerSubstringIndex) ==
              token(lowerSubstringIndex,
                    IF ends(lowerSubstringIndex) = {} THEN argumentLength + 1
                    ELSE firstIndex(ends(lowerSubstringIndex)))
        IN  IF starts = {} THEN <<>> ELSE from(firstIndex(starts))
  IN  IF currentArgument = <<>> THEN <<>>
      ELSE getTokens(IF currentArgument[1] = DIRECTIVE_PREFIX THEN 2 ELSE 1)

\* the length check taken for passed whatever the number of tokens
anyNumberOfTokens(tokens) == [valid |-> Len(tokens) >= 2, errors |-> <<>>]

\* [valid, errors]: the value returned and the errors recorded
isValidNumberOfTokens(tokens) ==
  CASE Len(tokens) = 0 -> [valid |-> FALSE, errors |-> <<>>]
    [] Len(tokens) = 1 ->
         [valid |-> FALSE,
          errors |-> <<"Syntax Error: A Key : Value pair was not found">>]
    [] Len(tokens) = 2 -> [valid |-> TRUE, errors |-> <<>>]
    [] OTHER ->
         [valid |-> FALSE,
          errors |-> <<"Syntax Error: Should only contain a single Key : Value pair">>]

\* _parseTokenStream with _isValidConfigurationOption, _containsNoSign,
\* _isValidConfigurationValue and _updateSystemConfigurationTable:
\* [table, errors], the configuration table and the errors recorded
parseTokenStream(tokens, systemConfigurationTable, minimumValuesTable) ==
  LET counted == isValidNumberOfTokens(tokens)
      configurationOption == string(tokens[1])
      configurationValue == tokens[2]
      rejected(errors) == [table |-> systemConfigurationTable, errors |-> errors]
      nonIntegers ==
        Cardinality({i \in 1..Len(configurationValue) :
                       configurationValue[i] \notin VALUE_CHARACTERS})
  IN  IF ~counted.valid THEN rejected(counted.errors)
      ELSE IF configurationOption \notin DOMAIN systemConfigurationTable
      THEN rejected(<<"Unknown Option Error: Option is not recognised">>)
      ELSE IF configurationValue[1] = "+"
      THEN rejected(<<"Invalid Value Error: Do not specify the sign of a configuration value">>)
      ELSE IF configurationValue[1] = "-"
      THEN rejected(<<"Invalid Value Error: A configuration value must be a non-negative, denary integer">>)
      ELSE IF nonIntegers > 0
      THEN rejected([i \in 1..nonIntegers |->
                       "Invalid Value Error: Value must only contain integers"])
      ELSE IF integer(configurationValue) < minimumValuesTable[configurationOption]
      THEN rejected(<<"Minimum Value Error: Value is below the minimum">>)
      ELSE [table |-> [systemConfigurationTable EXCEPT
                         ![configurationOption] = integer(configurationValue)],
            errors |-> <<>>]

\* the loop of argumentProcess and of preprocess over the list of arguments:
\* [table, errors]
RECURSIVE parseArguments(_, _, _, _)
parseArguments(listOfArguments, systemConfigurationTable, minimumValuesTable, errors) ==
  IF listOfArguments = <<>>
  THEN [table |-> systemConfigurationTable, errors |-> errors]
  ELSE LET next(r) ==
             parseArguments(Tail(listOfArguments), r.table, minimumValuesTable,
                            errors \o r.errors)
       IN  next(parseTokenStream(tokeniseArgument(Head(listOfArguments)),
                                 systemConfigurationTable, minimumValuesTable))

\* ArgumentProcessor.argumentProcess: [table, errors]; _getErrors exits when
\* an error was recorded
argumentProcess(listOfArguments, systemConfigurationTable, minimumValuesTable) ==
  parseArguments(listOfArguments, systemConfigurationTable, minimumValuesTable, <<>>)

\* __extractPreprocessorDirectives with __skipOverComment,
\* __getPreprocessorDirective and __removePreprocessorDirective:
\* [sourceCode, listOfArguments]
extractPreprocessorDirectives(text) ==
  LET RECURSIVE extract(_, _, _)
      extract(sourceCode, currentIndex, listOfArguments) ==
        LET sourceCodeLength == Len(sourceCode)
            \* characters that are neither prefix are stepped over
            acting == {i \in currentIndex..sourceCodeLength :
                         sourceCode[i] \in {COMMENT_PREFIX, DIRECTIVE_PREFIX}}
            \* where __skipOverComment stops: at a line break or at the end
            skipOverComment(beginningIndexOfComment) ==
              LET breaks == {i \in beginningIndexOfComment..sourceCodeLength :
                               sourceCode[i] \in LINE_BREAK_CHARACTERS}
              IN  IF breaks = {} THEN sourceCodeLength + 1 ELSE firstIndex(breaks)
            \* where the directive that begins at the index ends
            upperSubstringIndex(lowerSubstringIndex) ==
              LET terminating ==
                    {i \in (lowerSubstringIndex + 1)..sourceCodeLength :
                       sourceCode[i] \in LINE_BREAK_CHARACTERS
                                           \cup {COMMENT_PREFIX, DIRECTIVE_PREFIX}}
              IN  IF terminating = {} THEN sourceCodeLength + 1
                  ELSE firstIndex(terminating)
            \* the directive is appended to the arguments and cut out of the
            \* source code; the loop then steps on by one character
            cut(lowerSubstringIndex, upperIndex) ==
              extract(SubSeq(sourceCode, 1, lowerSubstringIndex - 1)
                        \o SubSeq(sourceCode, upperIndex, sourceCodeLength),
                      lowerSubstringIndex + 1,
                      Append(listOfArguments,
                             SubSeq(sourceCode, lowerSubstringIndex, upperIndex - 1)))
            act(index) ==
              IF sourceCode[index] = COMMENT_PREFIX
              THEN extract(sourceCode, skipOverComment(index) + 1, listOfArguments)
              ELSE cut(index, upperSubstringIndex(index))
        IN  IF acting = {}
            THEN [sourceCode |-> sourceCode, listOfArguments |-> listOfArguments]
            ELSE act(firstIndex(acting))
  IN  extract(text, 1, <<>>)

\* Preprocessor.preprocess: [sourceCode, table, errors]; _getErrors exits when
\* an error was recorded
preprocess(text, systemConfigurationTable, minimumValuesTable) ==
  LET parsed(extracted, r) ==
        [sourceCode |-> extracted.sourceCode, table |-> r.table, errors |-> r.errors]
      processed(extracted) ==
        parsed(extracted,
               parseArguments(extracted.listOfArguments, systemConfigurationTable,
                              minimumValuesTable, <<>>))
  IN  processed(extractPreprocessorDirectives(text))

(***************************************************************************)
(* lexer.py: the token stream of a source text.  The row and the column of *)
(* a token and of an error are left out, as in Token                       *)
(***************************************************************************)
OPERAND_SEPERATOR_CHARACTERS == {","}

BLOCK_SCOPE_CHARACTERS == {"{", "}"}

LEFT_SCOPE_CHARACTERS == {"{"}

ADDRESSING_MODE_CHARACTERS ==
  {IMMEDIATE_ADDRESSING_MODE, DIRECT_ADDRESSING_MODE, INDIRECT_ADDRESSING_MODE,
   REGISTER_ADDRESSING_MODE}

ADDRESSING_MODES ==
  [IMMEDIATE |-> IMMEDIATE_ADDRESSING_MODE, DIRECT |-> DIRECT_ADDRESSING_MODE,
   INDIRECT |-> INDIRECT_ADDRESSING_MODE, REGISTER |-> REGISTER_ADDRESSING_MODE]
  @@ [symbol \in ADDRESSING_MODE_CHARACTERS |-> symbol]

ASSEMBLY_DIRECTIVES == [DAT |-> 0]

VALUE_SIGNS == {"+", "-"}

BEGINNING_OF_VALUE_CHARACTERS == VALUE_SIGNS \cup VALUE_CHARACTERS

BEGINNING_OF_LABEL_CHARACTERS ==
  {"a", "b", "c", "d", "e", "f", "g", "h", "i", "j", "k", "l", "m", "n", "o", "p",
   "q", "r", "s", "t", "u", "v", "w", "x", "y", "z", "A", "B", "C", "D", "E", "F",
   "G", "H", "I", "J", "K", "L", "M", "N", "O", "P", "Q", "R", "S", "T", "U", "V",
   "W", "X", "Y", "Z", "_"}

LABEL_CHARACTERS == BEGINNING_OF_LABEL_CHARACTERS \cup VALUE_CHARACTERS

\* the index of the line break that ends a comment, one past the text when
\* there is none
skipOverComment(sourceCode, beginningIndexOfComment) ==
  LET lineBreaks == {i \in beginningIndexOfComment..Len(sourceCode) :
                       sourceCode[i] \in LINE_BREAK_CHARACTERS}
  IN  IF lineBreaks = {} THEN Len(sourceCode) + 1 ELSE firstIndex(lineBreaks)

\* the errors recorded for the characters of a substring outside a set; the
\* quotes a message puts around the character are left out
invalidCharacters(tokenSubstring, characters, typeOfError) ==
  LET invalid == {i \in 1..Len(tokenSubstring) : tokenSubstring[i] \notin characters}
      record[i \in Nat] ==
        IF i = 0 THEN <<>>
        ELSE IF i \in invalid
             THEN Append(record[i - 1],
                         typeOfError \o ": Non-" \o
                         (IF typeOfError = "Invalid Label Error" THEN "label" ELSE "value")
                         \o " character found " \o tokenSubstring[i])
             ELSE record[i - 1]
  IN  record[Len(tokenSubstring)]

generateLabelToken(tokenSubstring) ==
  [token |-> Token(TypedToken.LABEL, string(tokenSubstring)),
   errors |->
     (IF tokenSubstring[1] \notin BEGINNING_OF_LABEL_CHARACTERS
      THEN <<"Invalid Label Error: Non-value character found " \o tokenSubstring[1]>>
      ELSE <<>>)
     \o invalidCharacters(tokenSubstring, LABEL_CHARACTERS, "Invalid Label Error")]

\* the substring begins with a value character
generateValueToken(tokenSubstring) ==
  LET signed == tokenSubstring[1] \in VALUE_SIGNS
      valueTokenSign == IF signed THEN tokenSubstring[1] ELSE "+"
      digits == IF signed THEN Tail(tokenSubstring) ELSE tokenSubstring
  IN  [token |-> Token(TypedToken.VALUE, valueTokenSign \o string(digits)),
       errors |->
         (IF digits = <<>>
          THEN <<"Invalid Value Error: Empty value found, only the sign was specified">>
          ELSE <<>>)
         \o invalidCharacters(digits, VALUE_CHARACTERS, "Invalid Value Error")]

determineTokenType(tokenSubstring) ==
  CASE string(tokenSubstring) \in DOMAIN INSTRUCTION_SET -> TypedToken.INSTRUCTION
    [] string(tokenSubstring) \in DOMAIN SPECIAL_PURPOSE_REGISTERS -> TypedToken.REGISTER
    [] string(tokenSubstring) \in DOMAIN ADDRESSING_MODES -> TypedToken.ADDRESSING_MODE
    [] string(tokenSubstring) \in DOMAIN ASSEMBLY_DIRECTIVES ->
         TypedToken.ASSEMBLY_DIRECTIVE
    [] OTHER -> TypedToken.LABEL

\* the substring from an index to the next terminating character, upper-cased
getTokenSubstring(sourceCode, lowerSubstringIndex) ==
  LET tokenTerminatingCharacters ==
        WHITE_SPACE_CHARACTERS \cup LINE_BREAK_CHARACTERS
          \cup OPERAND_SEPERATOR_CHARACTERS \cup BLOCK_SCOPE_CHARACTERS
          \cup ADDRESSING_MODE_CHARACTERS \cup {COMMENT_PREFIX}
      terminators == {i \in lowerSubstringIndex..Len(sourceCode) :
                        sourceCode[i] \in tokenTerminatingCharacters}
      upperSubstringIndex ==
        IF terminators = {} THEN Len(sourceCode) + 1 ELSE firstIndex(terminators)
  IN  upperCased(SubSeq(sourceCode, lowerSubstringIndex, upperSubstringIndex - 1))

\* the token of a substring and the errors recorded for it
processTokenSubstring(tokenSubstring) ==
  IF tokenSubstring[1] \in BEGINNING_OF_VALUE_CHARACTERS
  THEN generateValueToken(tokenSubstring)
  ELSE LET given(isGeneralPurposeRegister) ==
             IF isGeneralPurposeRegister # <<>>
             THEN [token |-> Token(TypedToken.REGISTER, string(isGeneralPurposeRegister)),
                   errors |-> <<>>]
             ELSE LET typeOfToken == determineTokenType(tokenSubstring)
                  IN  CASE typeOfToken = TypedToken.ADDRESSING_MODE ->
                             [token |-> Token(typeOfToken,
                                              ADDRESSING_MODES[string(tokenSubstring)]),
                              errors |-> <<>>]
                        [] typeOfToken = TypedToken.LABEL ->
                             generateLabelToken(tokenSubstring)
                        [] OTHER ->
                             [token |-> Token(typeOfToken, string(tokenSubstring)),
                              errors |-> <<>>]
       IN  given(determineTypeOfRegisterKeyword(tokenSubstring))

\* the loop of __tokeniseSourceCode from an index of the source code
RECURSIVE tokeniseFrom(_, _, _, _)
tokeniseFrom(sourceCode, currentIndex, generatedStreamOfTokens, errors) ==
  IF currentIndex > Len(sourceCode)
  THEN [tokens |-> generatedStreamOfTokens, errors |-> errors]
  ELSE LET currentCharacter == sourceCode[currentIndex]
           appended(token) ==
             tokeniseFrom(sourceCode, currentIndex + 1,
                          Append(generatedStreamOfTokens, token), errors)
           substring(tokenSubstring, processed) ==
             tokeniseFrom(sourceCode, currentIndex + Len(tokenSubstring),
                          Append(generatedStreamOfTokens, processed.token),
                          errors \o processed.errors)
       IN  CASE currentCharacter = COMMENT_PREFIX ->
                  tokeniseFrom(sourceCode, skipOverComment(sourceCode, currentIndex),
                               generatedStreamOfTokens, errors)
             [] currentCharacter \in WHITE_SPACE_CHARACTERS ->
                  tokeniseFrom(sourceCode, currentIndex + 1, generatedStreamOfTokens,
                               errors)
             [] currentCharacter \in LINE_BREAK_CHARACTERS ->
                  IF /\ generatedStreamOfTokens # <<>>
                     /\ generatedStreamOfTokens[Len(generatedStreamOfTokens)].tokenType
                          # TypedToken.END
                  THEN appended(Token(TypedToken.END, "/"))
                  ELSE tokeniseFrom(sourceCode, currentIndex + 1,
                                    generatedStreamOfTokens, errors)
             [] currentCharacter \in BLOCK_SCOPE_CHARACTERS ->
                  appended(Token(IF currentCharacter \in LEFT_SCOPE_CHARACTERS
                                 THEN TypedToken.LEFT_BRACE
                                 ELSE TypedToken.RIGHT_BRACE, currentCharacter))
             [] currentCharacter \in OPERAND_SEPERATOR_CHARACTERS ->
                  appended(Token(TypedToken.SEPERATOR, ","))
             [] currentCharacter \in ADDRESSING_MODE_CHARACTERS ->
                  appended(Token(TypedToken.ADDRESSING_MODE,
                                 ADDRESSING_MODES[currentCharacter]))
             [] OTHER ->
                  LET tokenSubstring == getTokenSubstring(sourceCode, currentIndex)
                  IN  substring(tokenSubstring, processTokenSubstring(tokenSubstring))

\* generatedStreamOfTokens[-1] of an empty list raises IndexError
tokeniseSourceCode(sourceCode) ==
  LET closed(tokenised) ==
        IF Len(sourceCode) # 0 /\ tokenised.tokens = <<>>
        THEN [tokens |-> <<>>, errors |-> tokenised.errors, raised |-> "IndexError"]
        ELSE IF /\ Len(sourceCode) # 0
                /\ tokenised.tokens[Len(tokenised.tokens)].tokenType # TypedToken.END
             THEN [tokens |-> Append(tokenised.tokens, Token(TypedToken.END, "/")),
                   errors |-> tokenised.errors, raised |-> ""]
             ELSE [tokens |-> tokenised.tokens, errors |-> tokenised.errors,
                   raised |-> ""]
  IN  closed(tokeniseFrom(sourceCode, 1, <<>>, <<>>))

\* Lexer(sourceCode, commentPrefix).lex(): the token stream, the lexing errors
\* that end the program and the exception raised
lex(sourceCode) ==
  IF sourceCode # <<>>
  THEN LET tokenised(r) ==
             IF r.raised # "" THEN r
             ELSE IF r.errors # <<>>
                  THEN [tokens |-> <<>>, errors |-> r.errors, raised |-> "exit(-1)"]
                  ELSE r
       IN  tokenised(tokeniseSourceCode(sourceCode))
  ELSE [tokens |-> <<>>, errors |-> <<>>, raised |-> ""]

(***************************************************************************)
(* The inputs: configurations, source programs as the lexer hands them to  *)
(* the parser, and lines typed on standard input.                          *)
(***************************************************************************)
\* the smallest configuration the option table accepts
MinimumConfiguration == [MEMORY |-> 16, REGISTERS |-> 4, CLOCK |-> 0]

\* the configurations explored for the instruction format
Configurations ==
  {[MEMORY |-> m, REGISTERS |-> r, CLOCK |-> 0] :
     m \in MinimumConfiguration.MEMORY..MaxMemory,
     r \in MinimumConfiguration.REGISTERS..MaxRegisters}

\* the lines input() may return
InputLines == {ToString(MaxInput), "-7", "abc"}

\* the concatenation of a sequence of sequences
RECURSIVE flatten(_)
flatten(parts) == IF parts = <<>> THEN <<>> ELSE Head(parts) \o flatten(Tail(parts))

\* Source texts: at most MaxParts parts, each the directive !MEMORY=20, the
\* directive !CLOCK=7, a comment prefix, a line break, the instruction HLT or
\* a space
SourceTexts ==
  LET part == {<<"!", "M", "E", "M", "O", "R", "Y", "=", "2", "0">>,
               <<"!", "C", "L", "O", "C", "K", "=", "7">>,
               <<";">>, <<"\n">>, <<"H", "L", "T">>, <<" ">>}
  IN  {flatten(parts) : parts \in UNION {[1..n -> part] : n \in 0..MaxParts}}

\* Arguments: at most MaxPieces pieces, each an option name, the delimiter, a
\* space or a number, after a directive prefix or after none
Arguments ==
  LET piece == {<<"m", "e", "m", "o", "r", "y">>, <<"=">>, <<" ">>, <<"2", "0">>,
                <<"7">>}
  IN  {prefix \o flatten(pieces) :
         prefix \in {<<>>, <<DIRECTIVE_PREFIX>>},
         pieces \in UNION {[1..n -> piece] : n \in 0..MaxPieces}}

\* Texts handed to the lexer: at most MaxParts parts, each a space, a line
\* break, a comment prefix, an instruction, a register, an addressing mode, a
\* value or a value with a letter in it
LexerTexts ==
  LET part == {<<" ">>, <<"\n">>, <<";">>, <<"h", "l", "t">>, <<"r", "1">>, <<"#">>,
               <<"-", "5">>, <<"5", "a">>}
  IN  {flatten(parts) : parts \in UNION {[1..n -> part] : n \in 0..MaxParts}}

\* Words handed to the lexer: a register keyword or a word that is none, in
\* some letter case, followed by at most MaxDigits digits
RegisterWords ==
  LET keyword == {<<"R", "E", "G", "I", "S", "T", "E", "R">>,
                  <<"r", "e", "g", "i", "s", "t", "e", "r">>,
                  <<"R", "e", "g", "i", "s", "t", "e", "r">>,
                  <<"R", "E", "G">>, <<"r", "e", "g">>, <<"R">>, <<"r">>,
                  <<"r", "e", "g", "s">>}
      digit == {"0", "1", "7"}
  IN  {word \o digits :
         word \in keyword, digits \in UNION {[1..n -> digit] : n \in 0..MaxDigits}}

\* Token streams of source programs.  A VALUE token carries sign and digits, a
\* general purpose register its number, an addressing mode its symbol; every
\* line ends in one END token.
Program ==
  LET END == Token(TypedToken.END, "\n")
      Sep == Token(TypedToken.SEPERATOR, ",")
      Ins(m) == Token(TypedToken.INSTRUCTION, m)
      Val(n) == Token(TypedToken.VALUE,
                      (IF n < 0 THEN "-" ELSE "+") \o ToString(abs(n)))
      Lab(l) == <<Token(TypedToken.LABEL, l)>>
      Imm(n) == <<Token(TypedToken.ADDRESSING_MODE, "#"), Val(n)>>
      Dir(n) == <<Val(n)>>
      Reg(r) == <<Token(TypedToken.ADDRESSING_MODE, "%"), Token(TypedToken.REGISTER, r)>>
      Bare(r) == <<Token(TypedToken.REGISTER, r)>>
      Ind(operand) == <<Token(TypedToken.ADDRESSING_MODE, ">")>> \o operand
      S0(m) == <<Ins(m), END>>
      S1(m, operand) == <<Ins(m)>> \o operand \o <<END>>
      S2(m, source, destination) ==
        <<Ins(m)>> \o source \o <<Sep>> \o destination \o <<END>>
      Dat(l, n) == Lab(l) \o <<Token(TypedToken.ASSEMBLY_DIRECTIVE, "DAT"), Val(n), END>>
      Open(l) == Lab(l) \o <<Token(TypedToken.LEFT_BRACE, "{"), END>>
      Close == <<Token(TypedToken.RIGHT_BRACE, "}"), END>>
      W == CodeGenerator(MinimumConfiguration).totalNumberOfInstructionBits
      cells == numberOfMemoryAddresses(CodeGenerator(MinimumConfiguration))
      \* a declaration of the label X by kind, n the initializer of a variable
      Declare(kind, n) ==
        CASE kind = "BRANCH" -> Lab("X") \o S0("NOP")
          [] kind = "VARIABLE" -> Dat("X", n)
          [] kind = "PROCEDURE" -> Open("X") \o S0("RET") \o Close
      \* the operand %<register> as the lexer reads a register keyword
      Lexed(keyword) == Reg(string(determineTypeOfRegisterKeyword(keyword)))
      RECURSIVE Repeat(_, _)
      Repeat(statement, n) ==
        IF n = 0 THEN <<>> ELSE statement \o Repeat(statement, n - 1)
  IN
  [ \* INP REG1 / OUT REG1 / HLT
    echoBare |-> S1("INP", Bare("1")) \o S1("OUT", Bare("1")) \o S0("HLT"),
    \* INP %REG1 / OUT %REG1 / HLT
    echo |-> S1("INP", Reg("1")) \o S1("OUT", Reg("1")) \o S0("HLT"),
    \* COUNT DAT n / SUM DAT 0 / LOOP LDA COUNT, %REG1 / BRZ DONE, %REG1 /
    \* LDA SUM, %REG2 / ADD #5, %REG2 / STA SUM, %REG2 / SUB #1, %REG1 /
    \* STA COUNT, %REG1 / BRA LOOP / DONE OUT SUM / HLT
    countedLoop |->
      [n \in 0..MaxCount |->
         Dat("COUNT", n) \o Dat("SUM", 0)
         \o Lab("LOOP") \o S2("LDA", Lab("COUNT"), Reg("1"))
         \o S2("BRZ", Lab("DONE"), Reg("1"))
         \o S2("LDA", Lab("SUM"), Reg("2"))
         \o S2("ADD", Imm(5), Reg("2"))
         \o S2("STA", Lab("SUM"), Reg("2"))
         \o S2("SUB", Imm(1), Reg("1"))
         \o S2("STA", Lab("COUNT"), Reg("1"))
         \o S1("BRA", Lab("LOOP"))
         \o Lab("DONE") \o S1("OUT", Lab("SUM"))
         \o S0("HLT")],
    \* DOUBLE { / ADD %REG1, %REG1 / RET / } / LDA #7, %REG1 / CALL DOUBLE /
    \* OUT %REG1 / HLT
    double |->
      Open("DOUBLE") \o S2("ADD", Reg("1"), Reg("1")) \o S0("RET") \o Close
      \o S2("LDA", Imm(7), Reg("1")) \o S1("CALL", Lab("DOUBLE"))
      \o S1("OUT", Reg("1")) \o S0("HLT"),
    \* the same with ADD REG1, REG1
    doubleBare |->
      Open("DOUBLE") \o S2("ADD", Bare("1"), Bare("1")) \o S0("RET") \o Close
      \o S2("LDA", Imm(7), Reg("1")) \o S1("CALL", Lab("DOUBLE"))
      \o S1("OUT", Reg("1")) \o S0("HLT"),
    \* NOP / CALL FIRST / CALL SECOND / OUT %REG1 / HLT /
    \* FIRST { / ADD #1, %REG1 / RET / } / SECOND { / ADD #2, %REG1 / RET / }
    twoCalls |->
      S0("NOP") \o S1("CALL", Lab("FIRST")) \o S1("CALL", Lab("SECOND"))
      \o S1("OUT", Reg("1")) \o S0("HLT")
      \o Open("FIRST") \o S2("ADD", Imm(1), Reg("1")) \o S0("RET") \o Close
      \o Open("SECOND") \o S2("ADD", Imm(2), Reg("1")) \o S0("RET") \o Close,
    \* LDA #1 / LSL #(W-1) / LSL #1 / HLT
    shiftOut |->
      S1("LDA", Imm(1)) \o S1("LSL", Imm(W - 1)) \o S1("LSL", Imm(1)) \o S0("HLT"),
    \* LDA #-1, %PC / HLT
    negativeCounter |-> S2("LDA", Imm(-1), Reg("PC")) \o S0("HLT"),
    \* LDA #(cells-1), %REG1 / ADD #1, %REG1 / LDA %REG1, %PC
    leaveMemory |->
      S2("LDA", Imm(cells - 1), Reg("1")) \o S2("ADD", Imm(1), Reg("1"))
      \o S2("LDA", Reg("1"), Reg("PC")),
    \* LDA -9 / HLT
    directBelow |-> S1("LDA", Dir(-9)) \o S0("HLT"),
    \* X DAT -9 / LDA >X / HLT
    indirectBelow |-> Dat("X", -9) \o S1("LDA", Ind(Lab("X"))) \o S0("HLT"),
    \* STA -9 / OUT -9 / HLT
    storeBelow |-> S1("STA", Dir(-9)) \o S1("OUT", Dir(-9)) \o S0("HLT"),
    \* FOO / BRA L / L HLT
    labelAlone |-> Lab("FOO") \o <<END>> \o S1("BRA", Lab("L")) \o Lab("L") \o S0("HLT"),
    \* P { / NOP / BACK BRA BACK / } / X DAT 1 / BRA L / L CALL P / HLT
    branches |->
      Open("P") \o S0("NOP") \o Lab("BACK") \o S1("BRA", Lab("BACK")) \o Close
      \o Dat("X", 1) \o S1("BRA", Lab("L")) \o Lab("L") \o S1("CALL", Lab("P"))
      \o S0("HLT"),
    \* EMPTY { / } / CALL EMPTY / HLT
    emptyProcedure |-> Open("EMPTY") \o Close \o S1("CALL", Lab("EMPTY")) \o S0("HLT"),
    \* VARS { / X DAT 5 / } / NEXT { / RET / } / CALL VARS / HLT
    variableProcedure |->
      Open("VARS") \o Dat("X", 5) \o Close \o Open("NEXT") \o S0("RET") \o Close
      \o S1("CALL", Lab("VARS")) \o S0("HLT"),
    \* { / }
    braceFirst |-> <<Token(TypedToken.LEFT_BRACE, "{"), END>> \o Close,
    \* P { / RET }
    noEnd |-> Open("P") \o <<Ins("RET")>> \o Close,
    \* # / HLT
    modeFirst |-> <<Token(TypedToken.ADDRESSING_MODE, "#"), END>> \o S0("HLT"),
    \* L HLT / L HLT
    duplicate |-> Lab("L") \o S0("HLT") \o Lab("L") \o S0("HLT"),
    \* LDA #1, %ACCUMULATOR / HLT
    longName |-> S2("LDA", Imm(1), Reg("ACCUMULATOR")) \o S0("HLT"),
    \* cells + 1 lines NOP
    tooLarge |-> Repeat(S0("NOP"), cells + 1),
    \* LDA #a, %REG1 / <instruction> #b, %REG1 / OUTB %REG1 / OUTB %FR / HLT
    operate |->
      [m \in {"ADD", "SUB", "AND", "OR", "XOR", "NOT", "LSL", "LSR", "ASL", "ASR",
              "CSL", "CSR", "CSLC", "CSRC"} |->
         [a \in {-3, 0, 6} |->
            [b \in {-1, 0, 1, 3} |->
               S2("LDA", Imm(a), Reg("1")) \o S2(m, Imm(b), Reg("1"))
               \o S1("OUTB", Reg("1")) \o S1("OUTB", Reg("FR")) \o S0("HLT")]]],
    \* LDA #a, %REG1 / BRP L, %REG1 / OUT %REG1 / L OUTC #(a + 65) / HLT
    branchPositive |->
      [a \in {-3, 0, 6} |->
         S2("LDA", Imm(a), Reg("1")) \o S2("BRP", Lab("L"), Reg("1"))
         \o S1("OUT", Reg("1")) \o Lab("L") \o S1("OUTC", Imm(a + 65)) \o S0("HLT")],
    \* LDA #3, %FR / CSLC #2, %FR / LSR #1, %FR / OUTB %FR / HLT
    shiftFlags |->
      S2("LDA", Imm(3), Reg("FR")) \o S2("CSLC", Imm(2), Reg("FR"))
      \o S2("LSR", Imm(1), Reg("FR")) \o S1("OUTB", Reg("FR")) \o S0("HLT"),
    \* a store whose source operand is addressed in immediate mode
    storeImmediate |->
      [ \* STA #5, %REG1 / HLT
        two |-> S2("STA", Imm(5), Reg("1")) \o S0("HLT"),
        \* STA #5, REG1 / HLT
        bare |-> S2("STA", Imm(5), Bare("1")) \o S0("HLT"),
        \* STA #5 / HLT
        one |-> S1("STA", Imm(5)) \o S0("HLT"),
        \* X DAT 1 / STA #X, %REG1 / HLT
        label |->
          Dat("X", 1)
          \o S2("STA", <<Token(TypedToken.ADDRESSING_MODE, "#")>> \o Lab("X"), Reg("1"))
          \o S0("HLT"),
        \* P { / STA #5, %REG1 / RET / } / CALL P / HLT
        procedure |->
          Open("P") \o S2("STA", Imm(5), Reg("1")) \o S0("RET") \o Close
          \o S1("CALL", Lab("P")) \o S0("HLT"),
        \* STA #5, %REG1, %REG2 / HLT
        three |->
          <<Ins("STA")>> \o Imm(5) \o <<Sep>> \o Reg("1") \o <<Sep>> \o Reg("2")
          \o <<END>> \o S0("HLT") ],
    \* the label X declared twice in the global pool: <first> / <second> / HLT
    redeclare |->
      [first \in {"BRANCH", "VARIABLE", "PROCEDURE"} |->
         [second \in {"BRANCH", "VARIABLE"} |->
            Declare(first, 1) \o Declare(second, 2) \o S0("HLT")]],
    \* and in the pool of a procedure:
    \* P { / <first> / <second> / RET / } / CALL P / HLT
    redeclareInside |->
      [first \in {"BRANCH", "VARIABLE"} |->
         [second \in {"BRANCH", "VARIABLE"} |->
            Open("P") \o Declare(first, 1) \o Declare(second, 2) \o S0("RET")
            \o Close \o S1("CALL", Lab("P")) \o S0("HLT")]],
    \* LDA #5, %<register> / OUT %<register> / HLT
    register |->
      [keyword \in {<<"R", "E", "G", "0">>, <<"R", "0">>, <<"R", "E", "G", "0", "0">>,
                    <<"R", "E", "G", "I", "S", "T", "E", "R", "0">>,
                    <<"R", "0", "0", "0">>, <<"R", "E", "G", "2">>,
                    <<"R", "0", "2">>, <<"R", "E", "G", "1", "0">>} |->
         S2("LDA", Imm(5), Lexed(keyword)) \o S1("OUT", Lexed(keyword))
         \o S0("HLT")],
    \* a branch instruction and what its source operand names
    branch |->
      [m \in BRANCH_INSTRUCTIONS |->
         [ \* X DAT 1 / <branch> X / HLT
           variable |-> Dat("X", 1) \o S1(m, Lab("X")) \o S0("HLT"),
           \* P { / X DAT 1 / <branch> X / HLT / } / CALL P / HLT
           variableInside |->
             Open("P") \o Dat("X", 1) \o S1(m, Lab("X")) \o S0("HLT") \o Close
             \o S1("CALL", Lab("P")) \o S0("HLT"),
           \* X DAT 1 / P { / <branch> X / HLT / } / CALL P / HLT
           variableOutside |->
             Dat("X", 1) \o Open("P") \o S1(m, Lab("X")) \o S0("HLT") \o Close
             \o S1("CALL", Lab("P")) \o S0("HLT"),
           \* CALL P / L HLT / P { / <branch> L / HLT / }
           outside |->
             S1("CALL", Lab("P")) \o Lab("L") \o S0("HLT")
             \o Open("P") \o S1(m, Lab("L")) \o S0("HLT") \o Close,
           \* CALL P / HLT / P { / <branch> L / L HLT / }
           inside |->
             S1("CALL", Lab("P")) \o S0("HLT")
             \o Open("P") \o S1(m, Lab("L")) \o Lab("L") \o S0("HLT") \o Close,
           \* <branch> P / HLT / P { / HLT / }
           procedure |->
             S1(m, Lab("P")) \o S0("HLT") \o Open("P") \o S0("HLT") \o Close,
           \* <branch> NOWHERE / HLT
           missing |-> S1(m, Lab("NOWHERE")) \o S0("HLT"),
           \* <branch> #L / L HLT
           immediate |->
             S1(m, <<Token(TypedToken.ADDRESSING_MODE, "#")>> \o Lab("L"))
             \o Lab("L") \o S0("HLT"),
           \* <branch> 1 / HLT
           value |-> S1(m, Dir(1)) \o S0("HLT") ]],
    \* LDA #1 / NOP
    fallsOff |-> S1("LDA", Imm(1)) \o S0("NOP"),
    \* BRA L / NOP / L NOP / X DAT 0
    intoVariable |->
      S1("BRA", Lab("L")) \o S0("NOP") \o Lab("L") \o S0("NOP") \o Dat("X", 0),
    \* NOP / X DAT -3
    intoNegative |-> S0("NOP") \o Dat("X", -3),
    \* CALL P / HLT / P { / CALL Q / RET / } / Q { / NOP / RET / }
    nested |->
      S1("CALL", Lab("P")) \o S0("HLT")
      \o Open("P") \o S1("CALL", Lab("Q")) \o S0("RET") \o Close
      \o Open("Q") \o S0("NOP") \o S0("RET") \o Close,
    \* X DAT -3 / P { / OUT X / X DAT 7 / Y DAT / RET / } / OUT X / Z DAT 2 /
    \* CALL P / CALL Q / OUT Z / HLT / Q { / Z DAT 9 / OUT Z / RET / }
    variables |->
      Dat("X", -3)
      \o Open("P") \o S1("OUT", Lab("X")) \o Dat("X", 7)
      \o Lab("Y") \o <<Token(TypedToken.ASSEMBLY_DIRECTIVE, "DAT"), END>>
      \o S0("RET") \o Close
      \o S1("OUT", Lab("X")) \o Dat("Z", 2) \o S1("CALL", Lab("P"))
      \o S1("CALL", Lab("Q")) \o S1("OUT", Lab("Z")) \o S0("HLT")
      \o Open("Q") \o Dat("Z", 9) \o S1("OUT", Lab("Z")) \o S0("RET") \o Close
  ]

\* every program of the model
Programs ==
  LET streams(P) ==
        {P[k] : k \in DOMAIN P \ {"countedLoop", "operate", "branchPositive",
                                   "storeImmediate", "redeclare",
                                   "redeclareInside", "register", "branch"}}
        \cup {P.branch[m][k] :
                m \in DOMAIN P.branch,
                k \in {"variable", "variableInside", "variableOutside", "outside",
                       "inside", "procedure", "missing", "immediate", "value"}}
        \cup {P.register[keyword] : keyword \in DOMAIN P.register}
        \cup {P.storeImmediate[k] : k \in DOMAIN P.storeImmediate}
        \cup {P.redeclare[first][second] :
                first \in DOMAIN P.redeclare, second \in {"BRANCH", "VARIABLE"}}
        \cup {P.redeclareInside[first][second] :
                first \in DOMAIN P.redeclareInside, second \in {"BRANCH", "VARIABLE"}}
        \cup {P.countedLoop[n] : n \in DOMAIN P.countedLoop}
        \cup {P.branchPositive[a] : a \in DOMAIN P.branchPositive}
        \cup {P.operate[m][a][b] :
                m \in DOMAIN P.operate, a \in {-3, 0, 6}, b \in {-1, 0, 1, 3}}
  IN  streams(Program)

\* every stream of at most MaxTokens tokens, one spelling for each kind of
\* token, closed by the END the lexer appends
Successions ==
  LET spelt == {Token(TypedToken.END, "\n"), Token(TypedToken.INSTRUCTION, "LDA"),
                Token(TypedToken.LABEL, "X"), Token(TypedToken.VALUE, "+1"),
                Token(TypedToken.REGISTER, "1"),
                Token(TypedToken.ADDRESSING_MODE, "#"),
                Token(TypedToken.SEPERATOR, ","),
                Token(TypedToken.LEFT_BRACE, "{"),
                Token(TypedToken.RIGHT_BRACE, "}"),
                Token(TypedToken.ASSEMBLY_DIRECTIVE, "DAT")}
  IN  {stream \o <<Token(TypedToken.END, "\n")>> :
         stream \in UNION {[1..n -> spelt] : n \in 0..MaxTokens}}

\* every stream of at most MaxBraces braces and labels, an END after any of
\* them and one at the end, as the lexer closes every stream
Scopes ==
  LET END == Token(TypedToken.END, "/")
      piece == {<<Token(TypedToken.LEFT_BRACE, "{")>>,
                <<Token(TypedToken.LEFT_BRACE, "{"), END>>,
                <<Token(TypedToken.RIGHT_BRACE, "}")>>,
                <<Token(TypedToken.RIGHT_BRACE, "}"), END>>,
                <<Token(TypedToken.LABEL, "P")>>}
      closed(stream) ==
        IF stream[Len(stream)].tokenType = TypedToken.END THEN stream
        ELSE Append(stream, END)
  IN  {closed(flatten(pieces)) :
         pieces \in UNION {[1..n -> piece] : n \in 1..MaxBraces}}

(***************************************************************************)
(* The state machine                                                       *)
(***************************************************************************)
VARIABLES
  stage,                  \* "lexed", "parsed", "analysed", "constructed",
                          \* "generated", "running" or "terminated"
  raised,                 \* what ended the process, "" while it lives
  streamOfTokens,         \* Parser.__streamOfTokens
  reportedErrors,         \* the errors the parser or the analyser recorded
  procedurePools,         \* the instruction pools of the procedures, in
                          \* dictionary order
  mainPool,               \* the global instruction pool
  configurationOptions,   \* the configuration table: MEMORY, REGISTERS, CLOCK
  codeGenerator,          \* the bit widths computed by CodeGenerator.__init__
  generatedChadsemblyCode,\* the image
  memoryPool,             \* VirtualMachine.__memoryPool
  programCounter,         \* run()'s local: the address fetched from last
  stdin,                  \* the lines read by input()
  stdout,                 \* what print() wrote, one entry per call
  called,                 \* a static method called on its own: its name and
                          \* its arguments, <<>> when the pipeline runs
  returned                \* the value that call returned

vars ==
  <<stage, raised, streamOfTokens, reportedErrors, procedurePools, mainPool,
    configurationOptions, codeGenerator, generatedChadsemblyCode, memoryPool,
    programCounter, stdin, stdout, called, returned>>

\* the pipeline leaves the variables of a lone call alone
alone == <<called, returned>>

\* before any stage has run
Start(stream, configuration, first) ==
  /\ stage = first
  /\ raised = ""
  /\ streamOfTokens = stream
  /\ reportedErrors = <<>>
  /\ procedurePools = <<>>
  /\ mainPool =
       InstructionPool(GLOBAL_INSTRUCTION_POOL_IDENTIFIER, <<>>, <<>>)
  /\ configurationOptions = configuration
  /\ codeGenerator = [numberOfMachineOperationBits |-> 0, numberOfAddressingModeBits |-> 0,
            numberOfOperandBits |-> 0, totalNumberOfInstructionBits |-> 0,
            numberOfGeneralPurposeRegisters |-> 0]
  /\ generatedChadsemblyCode = <<>>
  /\ memoryPool = <<>>
  /\ programCounter = 0
  /\ stdin = <<>>
  /\ stdout = <<>>

\* no static method is called on its own
NoCall == called = <<>> /\ returned = <<>>

Init ==
  /\ \E stream \in Programs : Start(stream, MinimumConfiguration, "lexed")
  /\ NoCall

\* The three stages of the assembler are functions of their arguments alone.
\* Each is tabulated once, as the set of the pairs <<arguments, result>> over
\* the arguments the programs of the model hand it, and a stage's action
\* reads its result from the table.
parseOf ==
  {<<stream, parse(stream)>> : stream \in Programs \cup Successions \cup Scopes}

semanticAnalyseOf ==
  {<<pools, semanticAnalyse(pools[1], pools[2])>> :
     pools \in {<<parsed[2].instructionPools, parsed[2].globalInstructionPool>> :
                  parsed \in {entry \in parseOf : entry[2].outcome = "parsed"}}}

generateCodeOf ==
  {<<arguments, generateCode(arguments[1], arguments[2], arguments[3])>> :
     arguments \in
       {<<analysed[2].instructionPools, analysed[2].globalInstructionPool,
          CodeGenerator(MinimumConfiguration)>> :
          analysed \in {entry \in semanticAnalyseOf :
                          entry[2].outcome = "analysed"}}}

\* the result a table holds for the arguments
resultOf(table, arguments) == (CHOOSE entry \in table : entry[1] = arguments)[2]

\* Parser(streamOfTokens).parse()
Parse ==
  /\ stage = "lexed"
  /\ \E r \in {resultOf(parseOf, streamOfTokens)} :
         /\ stage' = IF r.outcome = "parsed" THEN "parsed" ELSE "terminated"
         /\ raised' = CASE r.outcome = "parsed" -> ""
                        [] r.outcome = "exit" -> "exit(-1)"
                        [] r.outcome = "crash" -> "IndexError"
         /\ reportedErrors' = r.errors
         /\ procedurePools' = r.instructionPools
         /\ mainPool' = r.globalInstructionPool
  /\ UNCHANGED <<alone, streamOfTokens, configurationOptions, codeGenerator, generatedChadsemblyCode,
                 memoryPool, programCounter, stdin, stdout>>

\* SemanticAnalyser(instructionPools, globalInstructionPool).semanticAnalyse()
SemanticAnalyse ==
  /\ stage = "parsed"
  /\ \E r \in {resultOf(semanticAnalyseOf,
                          <<procedurePools, mainPool>>)} :
         /\ stage' = IF r.outcome = "analysed" THEN "analysed" ELSE "terminated"
         /\ raised' = CASE r.outcome = "analysed" -> ""
                        [] r.outcome = "exit" -> "exit(-1)"
                        [] r.outcome = "crash" -> "IndexError"
         /\ reportedErrors' = r.errors
         /\ procedurePools' = r.instructionPools
         /\ mainPool' = r.globalInstructionPool
  /\ UNCHANGED <<alone, streamOfTokens, configurationOptions, codeGenerator, generatedChadsemblyCode,
                 memoryPool, programCounter, stdin, stdout>>

\* CodeGenerator(instructionPools, globalInstructionPool, configurationTable)
ConstructCodeGenerator ==
  /\ stage = "analysed"
  /\ stage' = "constructed"
  /\ codeGenerator' = CodeGenerator(configurationOptions)
  /\ UNCHANGED <<alone, raised, streamOfTokens, reportedErrors, procedurePools,
                 mainPool, configurationOptions, generatedChadsemblyCode,
                 memoryPool, programCounter, stdin, stdout>>

\* CodeGenerator.generateCode()
GenerateCode ==
  /\ stage = "constructed"
  /\ \E r \in {resultOf(generateCodeOf,
                          <<procedurePools, mainPool, codeGenerator>>)} :
         /\ stage' = IF r.crashed THEN "terminated" ELSE "generated"
         /\ raised' = IF r.crashed THEN "KeyError" ELSE ""
         /\ generatedChadsemblyCode' = r.code
         /\ procedurePools' = r.instructionPools
         /\ mainPool' = r.globalInstructionPool
  /\ UNCHANGED <<alone, streamOfTokens, reportedErrors, configurationOptions, codeGenerator, memoryPool,
                 programCounter, stdin, stdout>>

\* VirtualMachine(...) and the loader at the head of run()
Load ==
  /\ stage = "generated"
  /\ configurationOptions' =
       [configurationOptions EXCEPT !.MEMORY = numberOfMemoryAddresses(codeGenerator)]
  /\ IF Len(generatedChadsemblyCode) > numberOfMemoryAddresses(codeGenerator)
     THEN /\ stage' = "terminated"
          /\ raised' = "runtime error"
          /\ memoryPool' = generateMemoryPool(configurationOptions, codeGenerator)
     ELSE /\ stage' = "running"
          /\ raised' = ""
          /\ memoryPool' = loader(generateMemoryPool(configurationOptions, codeGenerator),
                                  generatedChadsemblyCode)
  /\ UNCHANGED <<alone, streamOfTokens, reportedErrors, procedurePools, mainPool,
                 codeGenerator, generatedChadsemblyCode, programCounter, stdin, stdout>>

\* the key of the program counter in the memory pool
programCounterAddress == registerAddress(PROGRAM_COUNTER, configurationOptions.REGISTERS)

\* the condition of run()'s while loop
inBounds ==
  readSignedInteger(memoryPool[programCounterAddress]) < configurationOptions.MEMORY

\* __executeInstruction(memoryPool[address]) with line read by input():
\* [raised, memoryPool, output]
executeInstruction(address, line) ==
  LET W == codeGenerator.totalNumberOfInstructionBits
  IN  only({IF word.machineOperation \notin DOMAIN OPCODE_TO_INSTRUCTION
            THEN Outcome("runtime error", counted, <<>>)
            ELSE only({IF source.fault # ""
                       THEN Outcome(source.fault, counted, <<>>)
                       ELSE MachineOperations(
                              instruction, counted, source,
                              resolveDestinationOperand(word.destinationOperand),
                              codeGenerator, line) :
                         instruction \in {OPCODE_TO_INSTRUCTION[word.machineOperation]},
                         source \in {resolveSourceOperand(
                                       counted, word.machineOperation,
                                       word.addressingMode, word.sourceOperand,
                                       codeGenerator)}}) :
              counted \in {store(memoryPool, programCounterAddress,
                                 signedInteger(
                                   readSignedInteger(memoryPool[programCounterAddress])
                                   + 1, W))},
              word \in {decode(memoryPool[address], codeGenerator)}})

\* whether the instruction at an address reads a line
reads(address) ==
  /\ address \in DOMAIN memoryPool
  /\ decode(memoryPool[address], codeGenerator).machineOperation = INSTRUCTION_SET.INP

\* one round of run()'s loop: fetch with the unsigned reading of the counter,
\* then execute
Cycle ==
  /\ stage = "running"
  /\ inBounds
  /\ programCounter' = readUnsignedInteger(memoryPool[programCounterAddress])
  /\ \E line \in (IF reads(programCounter') THEN InputLines ELSE {""}) :
       IF programCounter' \notin DOMAIN memoryPool
       THEN /\ stage' = "terminated"
            /\ raised' = "KeyError"
            /\ UNCHANGED <<memoryPool, stdin, stdout>>
       ELSE \E r \in {executeInstruction(programCounter', line)} :
                /\ stage' = IF r.raised = "" THEN "running" ELSE "terminated"
                /\ raised' = r.raised
                /\ memoryPool' = r.memoryPool
                /\ stdout' = stdout \o r.output
                /\ stdin' = IF reads(programCounter') THEN Append(stdin, line)
                            ELSE stdin
  /\ UNCHANGED <<alone, streamOfTokens, reportedErrors, procedurePools, mainPool,
                 configurationOptions, codeGenerator, generatedChadsemblyCode>>

\* the loop condition fails: run() returns
Terminate ==
  /\ stage = "running"
  /\ ~inBounds
  /\ stage' = "terminated"
  /\ raised' = "returned"
  /\ UNCHANGED <<alone, streamOfTokens, reportedErrors, procedurePools, mainPool,
                 configurationOptions, codeGenerator, generatedChadsemblyCode, memoryPool,
                 programCounter, stdin, stdout>>

\* Lexer(sourceCode, commentPrefix).lex() on a source text
Lex ==
  /\ stage = "called"
  /\ called.method = "lex"
  /\ \E r \in {lex(called.sourceCode)} :
       /\ returned' = r.tokens
       /\ reportedErrors' = r.errors
       /\ raised' = r.raised
       /\ stage' = IF r.raised = "" THEN "lexed" ELSE "terminated"
  /\ UNCHANGED <<called, streamOfTokens, procedurePools, mainPool, configurationOptions,
                 codeGenerator, generatedChadsemblyCode, memoryPool, programCounter,
                 stdin, stdout>>

\* Preprocessor(...).preprocess() on the source text
Preprocess ==
  /\ stage = "called"
  /\ called.method = "preprocess"
  /\ \E r \in {preprocess(called.sourceCode, configurationOptions,
                          MinimumConfiguration)} :
       /\ returned' = r.sourceCode
       /\ configurationOptions' = r.table
       /\ reportedErrors' = r.errors
       /\ stage' = IF r.errors = <<>> THEN "preprocessed" ELSE "terminated"
       /\ raised' = IF r.errors = <<>> THEN "" ELSE "exit(-1)"
  /\ UNCHANGED <<called, streamOfTokens, procedurePools, mainPool, codeGenerator,
                 generatedChadsemblyCode, memoryPool, programCounter, stdin, stdout>>

\* ArgumentProcessor(...).argumentProcess() on the list of arguments
ArgumentProcess ==
  /\ stage = "called"
  /\ called.method = "argumentProcess"
  /\ \E r \in {argumentProcess(called.listOfArguments, configurationOptions,
                               MinimumConfiguration)} :
       /\ configurationOptions' = r.table
       /\ reportedErrors' = r.errors
       /\ stage' = IF r.errors = <<>> THEN "processed" ELSE "terminated"
       /\ raised' = IF r.errors = <<>> THEN "" ELSE "exit(-1)"
  /\ UNCHANGED <<alone, streamOfTokens, procedurePools, mainPool, codeGenerator,
                 generatedChadsemblyCode, memoryPool, programCounter, stdin, stdout>>

Next ==
  \/ Parse
  \/ SemanticAnalyse
  \/ ConstructCodeGenerator
  \/ GenerateCode
  \/ Load
  \/ Cycle
  \/ Terminate

Spec == Init /\ [][Next]_vars

\* run() reached: the memory pool was generated
loaded == memoryPool # <<>>

\* the address run() fetches from next
fetchAddress == readUnsignedInteger(memoryPool[programCounterAddress])

\* a round of run()'s loop is about to fetch an instruction held in memory
fetching ==
  /\ stage = "running"
  /\ inBounds
  /\ fetchAddress \in DOMAIN memoryPool

\* W zero bits, and the keys of the accumulator and of the flags register
zeros == [i \in 1..codeGenerator.totalNumberOfInstructionBits |-> "0"]

accumulatorAddress == registerAddress(ACCUMULATOR, configurationOptions.REGISTERS)

flagsRegisterAddress == registerAddress(FLAGS_REGISTER, configurationOptions.REGISTERS)

returnRegisterAddress == registerAddress(RETURN_REGISTER, configurationOptions.REGISTERS)

(***************************************************************************)
(* C1: a bare register operand                                             *)
(***************************************************************************)
\* C1: the program INP REG1 / OUT REG1 / HLT, whose operands are bare register
\* tokens, is not rejected by the semantic analyser, and run with input 42 it
\* prints 42 and exits with code 0.
C1_BareRegisterAccepted ==
  streamOfTokens = Program.echoBare =>
    /\ reportedErrors = <<>>
    /\ raised # "exit(-1)"
    /\ (stage = "terminated" /\ stdin = <<ToString(MaxInput)>>) =>
         (raised = "exit(0)" /\ stdout = <<ToString(MaxInput)>>)

(***************************************************************************)
(* C2: every cell is W bits wide                                           *)
(***************************************************************************)
\* C2: once the memory pool exists, every cell of it, memory cell or register,
\* is a bit string of exactly W characters, W being the instruction width.
C2_CellsHaveInstructionWidth ==
  loaded =>
    \A key \in DOMAIN memoryPool :
      /\ Len(memoryPool[key]) = codeGenerator.totalNumberOfInstructionBits
      /\ \A i \in 1..Len(memoryPool[key]) : memoryPool[key][i] \in {"0", "1"}

\* the run of LDA #3, %FR / CSLC #2, %FR / LSR #1, %FR / OUTB %FR / HLT has
\* halted with shifts having written the flags register
C2_Witness ==
  /\ streamOfTokens = Program.shiftFlags
  /\ raised = "exit(0)"
  /\ stdout # <<>>
  /\ memoryPool[flagsRegisterAddress] # zeros

(***************************************************************************)
(* C3: operands target cells                                               *)
(***************************************************************************)
\* C3: whatever instruction the VM is about to execute, the keys it reads or
\* writes when it resolves the source operand and the destination operand
\* exist in the memory pool: executing it raises no KeyError.
C3_OperandsTargetCells ==
  fetching =>
    \A line \in InputLines : executeInstruction(fetchAddress, line).raised # "KeyError"

(***************************************************************************)
(* C4: the widths of the instruction format                                *)
(***************************************************************************)
\* the configurations with the code generator about to be constructed
InitWidths ==
  /\ \E configuration \in Configurations : Start(<<>>, configuration, "analysed")
  /\ NoCall

SpecWidths == InitWidths /\ [][ConstructCodeGenerator]_vars

\* the larger of the number of memory addresses and the number of registers
largestOperand ==
  IF configurationOptions.MEMORY
       > configurationOptions.REGISTERS + NUMBER_OF_SPECIAL_PURPOSE_REGISTERS
  THEN configurationOptions.MEMORY
  ELSE configurationOptions.REGISTERS + NUMBER_OF_SPECIAL_PURPOSE_REGISTERS

\* the length of n in binary: the k with 2^(k-1) <= n < 2^k
lengthInBinary(n) == CHOOSE k \in 1..MaxWidth : 2^(k - 1) <= n /\ n < 2^k

\* C4 as written: W = M + A + 2*O with M = ceil(log2(opcodes)) = 5,
\* A = ceil(log2(addressing modes)) = 2 and
\* O = ceil(log2(max(MEMORY, REGISTERS + 4))) + 1.
C4_WidthsAsWritten ==
  stage = "constructed" =>
    /\ codeGenerator.totalNumberOfInstructionBits
         = codeGenerator.numberOfMachineOperationBits + codeGenerator.numberOfAddressingModeBits
           + 2 * codeGenerator.numberOfOperandBits
    /\ codeGenerator.numberOfMachineOperationBits = ceilingOfLog2(NUMBER_OF_INSTRUCTIONS)
    /\ codeGenerator.numberOfMachineOperationBits = 5
    /\ codeGenerator.numberOfAddressingModeBits = ceilingOfLog2(NUMBER_OF_ADDRESSING_MODES)
    /\ codeGenerator.numberOfAddressingModeBits = 2
    /\ codeGenerator.numberOfOperandBits = ceilingOfLog2(largestOperand) + 1

\* C4 amended: W = M + A + 2*O where every width is a length in binary:
\* M = 5 for the 27 opcodes, A = 3 for the 4 addressing modes and
\* O = length(max(MEMORY, REGISTERS + 4)) + 1; the length of n is
\* ceil(log2(n)) unless n is an exact power of two, where it is one more.
C4_Widths ==
  stage = "constructed" =>
    /\ codeGenerator.totalNumberOfInstructionBits
         = codeGenerator.numberOfMachineOperationBits + codeGenerator.numberOfAddressingModeBits
           + 2 * codeGenerator.numberOfOperandBits
    /\ codeGenerator.numberOfMachineOperationBits = lengthInBinary(NUMBER_OF_INSTRUCTIONS)
    /\ codeGenerator.numberOfMachineOperationBits = 5
    /\ codeGenerator.numberOfAddressingModeBits = lengthInBinary(NUMBER_OF_ADDRESSING_MODES)
    /\ codeGenerator.numberOfAddressingModeBits = 3
    /\ codeGenerator.numberOfOperandBits = lengthInBinary(largestOperand) + 1
    /\ codeGenerator.numberOfOperandBits
         = ceilingOfLog2(largestOperand) + 1
           + (IF 2^ceilingOfLog2(largestOperand) = largestOperand THEN 1 ELSE 0)

\* the widths were computed for a MEMORY that is an exact power of two above
\* the minimum, and the operand is one bit wider than ceil(log2) + 1
C4_Witness ==
  /\ stage = "constructed"
  /\ configurationOptions.MEMORY = 2 * MinimumConfiguration.MEMORY
  /\ configurationOptions.MEMORY = 2^ceilingOfLog2(configurationOptions.MEMORY)
  /\ codeGenerator.numberOfOperandBits = ceilingOfLog2(configurationOptions.MEMORY) + 2

(***************************************************************************)
(* C5, C6: the addresses of branch and procedure labels                    *)
(***************************************************************************)
\* the pools in the order their code is laid out in the image
laidOutPools == <<mainPool>> \o procedurePools

\* the image index at which the code of the i-th laid out pool begins
RECURSIVE baseOffset(_)
baseOffset(i) ==
  IF i <= 1 THEN 0
  ELSE baseOffset(i - 1) + countNumberOfInstructions(laidOutPools[i - 1])
                         + countNumberOfVariables(laidOutPools[i - 1])

\* the number of instructions of a token stream before index k
instructionsBefore(tokenStream, k) ==
  Cardinality({i \in 1..(k - 1) : tokenStream[i].tokenType = TypedToken.INSTRUCTION})

\* the indexes at which a token stream declares a branch label: the label
\* stands in front of an instruction
declarations(tokenStream, label) ==
  {k \in 1..(Len(tokenStream) - 1) :
     /\ tokenStream[k].tokenType = TypedToken.LABEL
     /\ convertToCasing(tokenStream[k].tokenValue) = label
     /\ tokenStream[k + 1].tokenType = TypedToken.INSTRUCTION}

\* C5: after code generation every BRANCH symbol's value lies in
\* [0, image length) and is the image index of the instruction the label
\* precedes: the base offset of its pool plus the number of instructions before
\* the label in the pool, also when a statement is a label alone.
C5_BranchLabelsAddressInstructions ==
  generatedChadsemblyCode # <<>> =>
    \A p \in 1..Len(laidOutPools) :
      \A s \in 1..Len(laidOutPools[p].symbolTable) :
        LET symbol == laidOutPools[p].symbolTable[s]
            tokenStream == laidOutPools[p].tokenStream
        IN  symbol.labelType = SymbolTable.BRANCH_LABEL =>
              /\ symbol.labelValue \in 0..(Len(generatedChadsemblyCode) - 1)
              /\ \A k \in declarations(tokenStream, symbol.label) :
                   symbol.labelValue = baseOffset(p) + instructionsBefore(tokenStream, k)

\* C6: after code generation every PROCEDURE symbol's value is an index inside
\* the image, and the cell there is the first emitted instruction of that
\* procedure, its opcode one of the 27; also for a procedure whose body is
\* empty or holds only variable declarations.
C6_ProcedureLabelsAddressInstructions ==
  generatedChadsemblyCode # <<>> =>
    \A s \in 1..Len(mainPool.symbolTable) :
      LET symbol == mainPool.symbolTable[s]
      IN  symbol.labelType = SymbolTable.PROCEDURE_LABEL =>
            /\ symbol.labelValue \in 0..(Len(generatedChadsemblyCode) - 1)
            /\ \E p \in 2..Len(laidOutPools) :
                 /\ convertToCasing(laidOutPools[p].identifier) = symbol.label
                 /\ countNumberOfInstructions(laidOutPools[p]) >= 1
                 /\ symbol.labelValue = baseOffset(p)
                 /\ decode(generatedChadsemblyCode[symbol.labelValue + 1], codeGenerator)
                      .machineOperation \in 0..(NUMBER_OF_INSTRUCTIONS - 1)

(***************************************************************************)
(* C7: the fetch stays inside the memory                                   *)
(***************************************************************************)
\* C7: when the unsigned reading of the program counter is at least the number
\* of memory cells the loop of run() ends without a fetch, so the VM never
\* fetches from a key outside 0..cell count - 1; the sign bit of the program
\* counter being set is one such case.
C7_FetchWithinMemory ==
  /\ programCounter \in 0..(configurationOptions.MEMORY - 1)
  /\ (stage = "running" /\ fetchAddress >= configurationOptions.MEMORY) => ~inBounds

(***************************************************************************)
(* C8: call and return                                                     *)
(***************************************************************************)
\* the fields of the instruction about to be fetched
fetched == decode(memoryPool[fetchAddress], codeGenerator)

\* the addresses the global symbol table gives the procedures
procedureAddresses ==
  {mainPool.symbolTable[s].labelValue :
     s \in {t \in 1..Len(mainPool.symbolTable) :
              mainPool.symbolTable[t].labelType
                = SymbolTable.PROCEDURE_LABEL}}

SpecFair == Init /\ [][Next]_vars /\ WF_vars(Next)

\* the address the global symbol table gives a variable
variableAddresses ==
  {mainPool.symbolTable[s].labelValue :
     s \in {t \in 1..Len(mainPool.symbolTable) :
              mainPool.symbolTable[t].labelType
                = SymbolTable.VARIABLE_LABEL}}

\* C9: the counted loop over COUNT DAT n and SUM DAT 0 is assembled with its
\* variables after its instructions, prints nothing but 5 * n, and eventually
\* executes HLT having printed 5 * n once, for every n up to MaxCount.
C9_CountedLoopHalts ==
  \A n \in 0..MaxCount :
    /\ [](streamOfTokens = Program.countedLoop[n] =>
            /\ stdout \in {<<>>, <<ToString(5 * n)>>}
            /\ generatedChadsemblyCode # <<>> =>
                 \A address \in variableAddresses :
                   /\ address >= countNumberOfInstructions(mainPool)
                   /\ address < Len(generatedChadsemblyCode))
    /\ (streamOfTokens = Program.countedLoop[n])
         ~> (raised = "exit(0)" /\ stdout = <<ToString(5 * n)>>)

\* the loop over COUNT DAT MaxCount has halted and printed 5 * MaxCount
C9_Witness ==
  /\ streamOfTokens = Program.countedLoop[MaxCount]
  /\ stage = "terminated"
  /\ raised = "exit(0)"
  /\ stdout = <<ToString(5 * MaxCount)>>

(***************************************************************************)
(* C10: logical shift left                                                 *)
(***************************************************************************)
\* a bit string moved n places to the left, zeros entering on the right
shiftedLeft(binaryString, n) ==
  [i \in 1..Len(binaryString) |->
     IF i + n <= Len(binaryString) THEN binaryString[i + n] ELSE "0"]

\* the last bit that leaves on the left when a bit string moves n places
lastShiftedOut(binaryString, n) ==
  IF n <= Len(binaryString) THEN binaryString[n] ELSE "0"

InitSigned ==
  /\ Start(<<>>, MinimumConfiguration, "called")
  /\ \E n \in -MaxDenary..MaxDenary, W \in 2..MaxBits :
       called = [method |-> "signedInteger", denaryValue |-> n, numberOfBits |-> W]
  /\ returned = <<>>

\* BinaryString.signedInteger(denaryValue, numberOfBits)
SignedInteger ==
  /\ stage = "called"
  /\ called.method = "signedInteger"
  /\ stage' = "encoded"
  /\ returned' = signedInteger(called.denaryValue, called.numberOfBits)
  /\ UNCHANGED <<raised, streamOfTokens, reportedErrors, procedurePools, mainPool,
                 configurationOptions, codeGenerator, generatedChadsemblyCode,
                 memoryPool, programCounter, stdin, stdout, called>>

\* BinaryString.readSignedInteger(signedInteger) of the encoding
ReadSignedInteger ==
  /\ stage = "encoded"
  /\ stage' = "decoded"
  /\ returned' = readSignedInteger(returned)
  /\ UNCHANGED <<raised, streamOfTokens, reportedErrors, procedurePools, mainPool,
                 configurationOptions, codeGenerator, generatedChadsemblyCode,
                 memoryPool, programCounter, stdin, stdout, called>>

SpecSigned == InitSigned /\ [][SignedInteger \/ ReadSignedInteger]_vars

\* sign(n)
sign(n) == IF n < 0 THEN -1 ELSE IF n > 0 THEN 1 ELSE 0

\* a sign bit of 1 before a magnitude of zeros
negativeZero(binaryString) ==
  /\ binaryString[1] = "1"
  /\ \A i \in 2..Len(binaryString) : binaryString[i] = "0"

\* C11: for every integer n and every width W of two bits or more, the
\* encoding signedInteger(n, W) has exactly W characters and reads back as
\* sign(n) * (|n| mod 2^(W-1)); an encoding with sign bit 1 and a magnitude
\* of zero reads back as 0.
C11_SignedRoundTrip ==
  /\ stage = "encoded" =>
        /\ Len(returned) = called.numberOfBits
        /\ negativeZero(returned) => readSignedInteger(returned) = 0
  /\ stage = "decoded" =>
        returned = sign(called.denaryValue)
                     * (abs(called.denaryValue) % (2^(called.numberOfBits - 1)))

\* a negative integer whose magnitude is a multiple of 2^(W-1) was encoded
\* as negative zero and read back as 0
C11_Witness ==
  /\ stage = "decoded"
  /\ called.denaryValue < 0
  /\ called.numberOfBits > 2
  /\ returned = 0

(***************************************************************************)
(* C12: a store from an immediate operand                                  *)
(***************************************************************************)
\* the positions of the STA instructions of a token stream whose source
\* operand is addressed in immediate mode
storesImmediate(tokenStream) ==
  {i \in 1..(Len(tokenStream) - 1) :
     /\ tokenStream[i] = Token(TypedToken.INSTRUCTION, "STA")
     /\ tokenStream[i + 1] = Token(TypedToken.ADDRESSING_MODE, IMMEDIATE_ADDRESSING_MODE)}

\* number of operand values of the statement an instruction begins
operandsOf(tokenStream, i) == countNumberOfOperands(tokenStream, i)

\* once a semantic error is recorded the process exits with -1 and no image
\* was generated
abortsOnErrors ==
  reportedErrors' # <<>> =>
    /\ stage' = "terminated"
    /\ raised' = "exit(-1)"
    /\ generatedChadsemblyCode' = <<>>

\* C12 as stated: every STA instruction whose source operand is addressed in
\* immediate mode makes the semantic analyser record "Cannot address a data
\* flow instruction in immediate mode", and once a semantic error is recorded
\* the process exits with a nonzero status before code generation.
C12_StoreImmediateAsWritten ==
  [][SemanticAnalyse =>
       /\ storesImmediate(streamOfTokens) # {} =>
            \E e \in DOMAIN reportedErrors' :
              reportedErrors'[e] = "Cannot address a data flow instruction in immediate mode"
       /\ abortsOnErrors]_vars

\* C12 amended: the same for every such STA instruction that has at most two
\* operands; with three operands or more the analyser records the count of
\* operands instead, and the process exits all the same.
C12_StoreImmediate ==
  [][SemanticAnalyse =>
       /\ (\E i \in storesImmediate(streamOfTokens) :
              operandsOf(streamOfTokens, i) <= 2) =>
            \E e \in DOMAIN reportedErrors' :
              reportedErrors'[e] = "Cannot address a data flow instruction in immediate mode"
       /\ storesImmediate(streamOfTokens) # {} => reportedErrors' # <<>>
       /\ abortsOnErrors]_vars

\* the analyser recorded the error for STA #5, REG1 and the process exited
C12_Witness ==
  /\ streamOfTokens = Program.storeImmediate.bare
  /\ stage = "terminated"
  /\ raised = "exit(-1)"
  /\ reportedErrors # <<>>
  /\ reportedErrors[1] = "Cannot address a data flow instruction in immediate mode"
  /\ generatedChadsemblyCode = <<>>

(***************************************************************************)
(* C13: a label declared twice in one pool                                 *)
(***************************************************************************)
\* whether an error was recorded
recorded(message, errors) == \E e \in DOMAIN errors : errors[e] = message

\* what Parse does with a program that declares X as first and then as second
\* in the pool whose symbol table Parse leaves in symbolTable
redeclared(first, second, symbolTable) ==
  /\ first = "BRANCH" /\ second = "BRANCH" =>
       recorded("Duplicate branch label found", reportedErrors')
  /\ first = "VARIABLE" /\ second = "BRANCH" =>
       recorded("Attempting to redeclare a variable label to a branch label",
                reportedErrors')
  /\ first = "BRANCH" /\ second = "VARIABLE" =>
       recorded("Attempting to redeclare a branch label to a variable label",
                reportedErrors')
  /\ first = "PROCEDURE" /\ second = "VARIABLE" =>
       recorded("Attempting to redeclare a procedure label to a variable label",
                reportedErrors')
  /\ first = "VARIABLE" /\ second = "VARIABLE" =>
       /\ reportedErrors' = <<>>
       /\ stage' = "parsed"
       /\ get(symbolTable, "X").labelType = SymbolTable.VARIABLE_LABEL
       /\ get(symbolTable, "X").labelValue = 2
  /\ reportedErrors' # <<>> =>
       /\ stage' = "terminated"
       /\ raised' = "exit(-1)"
       /\ procedurePools' = <<>>

\* C13: within one pool's symbol table a declaration of a label already
\* present records an error when a branch label follows a branch label or a
\* variable, and when a variable follows a branch label or a procedure; a
\* variable that follows a variable records no error and its initializer
\* replaces the old one; whenever an error was recorded the parser exits
\* before semantic analysis.
C13_Redeclaration ==
  [][Parse =>
       /\ \A first \in DOMAIN Program.redeclare, second \in {"BRANCH", "VARIABLE"} :
            streamOfTokens = Program.redeclare[first][second] =>
              redeclared(first, second, mainPool'.symbolTable)
       /\ \A first \in DOMAIN Program.redeclareInside, second \in {"BRANCH", "VARIABLE"} :
            streamOfTokens = Program.redeclareInside[first][second] =>
              redeclared(first, second,
                         IF procedurePools' = <<>> THEN <<>>
                         ELSE procedurePools'[1].symbolTable)]_vars

\* X DAT 1 / X DAT 2 was parsed: no error, and X holds 2
C13_Witness ==
  /\ streamOfTokens = Program.redeclare["VARIABLE"]["VARIABLE"]
  /\ stage = "parsed"
  /\ reportedErrors = <<>>
  /\ get(mainPool.symbolTable, "X").labelValue = 2

(***************************************************************************)
(* C14: the pre-parse and the table of token successions                   *)
(***************************************************************************)
\* a short stream of tokens about to be parsed
InitPreparse ==
  /\ \E stream \in Successions : Start(stream, MinimumConfiguration, "lexed")
  /\ NoCall

SpecPreparse == InitPreparse /\ [][Parse]_vars

\* the kind of the token before position i, END before the first
kindBefore(stream, i) ==
  IF i = 1 THEN TypedToken.END ELSE stream[i - 1].tokenType

\* the positions whose kind the table does not permit after the kind before
outsideTable(stream) ==
  {i \in 1..Len(stream) :
     stream[i].tokenType \notin generateNextValidToken(kindBefore(stream, i))}

\* C14: the pre-parse, starting with previous kind END, records an unexpected
\* token error for exactly the tokens whose kind is not in the permitted-next
\* set of the kind before, so a stream that passes the pre-parse has every
\* adjacent pair of kinds inside the table.
C14_Successions ==
  [][Parse =>
       /\ Cardinality({e \in DOMAIN reportedErrors' :
                         reportedErrors'[e] = "Unexpected token"})
            = Cardinality(outsideTable(streamOfTokens))
       /\ stage' = "parsed" => outsideTable(streamOfTokens) = {}]_vars

\* a stream with two tokens outside the table was rejected with two errors
C14_Witness ==
  /\ stage = "terminated"
  /\ Cardinality(outsideTable(streamOfTokens)) = 2
  /\ reportedErrors = <<"Unexpected token", "Unexpected token">>

(***************************************************************************)
(* C15: general purpose register 0                                         *)
(***************************************************************************)
\* the positions of the general purpose register tokens whose number is 0
zeroRegisters(tokenStream) ==
  {i \in 1..Len(tokenStream) :
     /\ tokenStream[i].tokenType = TypedToken.REGISTER
     /\ tokenStream[i].tokenValue \notin DOMAIN SPECIAL_PURPOSE_REGISTERS
     /\ int(tokenStream[i].tokenValue) = 0}

\* the words of an image whose source operand is register number 0
sourcesRegisterZero(image) ==
  {i \in 1..Len(image) :
     /\ decode(image[i], codeGenerator).addressingMode
          = ADDRESSING_MODE_TO_OPCODE[REGISTER_ADDRESSING_MODE]
     /\ decode(image[i], codeGenerator).sourceOperand = 0}

\* C15: every general purpose register token whose numeric suffix has value 0
\* (REG0, R0, REG00, ...) is rejected by the semantic analyser, so no image
\* holds a register operand that resolves to register number 0.
C15_RegisterZeroInaccessible ==
  [][/\ SemanticAnalyse /\ zeroRegisters(streamOfTokens) # {} =>
          /\ stage' = "terminated"
          /\ recorded("Cannot access general purpose register 0", reportedErrors')
     /\ GenerateCode => sourcesRegisterZero(generatedChadsemblyCode') = {}]_vars

(***************************************************************************)
(* C16: the directives of a source text                                    *)
(***************************************************************************)
\* a source text about to be preprocessed
InitPreprocess ==
  /\ Start(<<>>, MinimumConfiguration, "called")
  /\ \E text \in SourceTexts : called = [method |-> "preprocess", sourceCode |-> text]
  /\ returned = <<>>

SpecPreprocess == InitPreprocess /\ [][Preprocess]_vars

\* the positions of a text that lie in a comment: from a comment prefix to
\* the end of its line
inComment(text) ==
  {i \in 1..Len(text) :
     \E c \in 1..i :
       /\ text[c] = COMMENT_PREFIX
       /\ \A j \in c..i : text[j] \notin LINE_BREAK_CHARACTERS}

\* the positions where a directive begins outside a comment
directiveStarts(text) ==
  {i \in 1..Len(text) \ inComment(text) : text[i] = DIRECTIVE_PREFIX}

\* the directive that begins at a position: up to the next line break,
\* comment prefix or directive prefix
directiveAt(text, i) ==
  LET terminating ==
        {j \in (i + 1)..Len(text) :
           text[j] \in LINE_BREAK_CHARACTERS \cup {COMMENT_PREFIX, DIRECTIVE_PREFIX}}
  IN  SubSeq(text, i,
             IF terminating = {} THEN Len(text) ELSE firstIndex(terminating) - 1)

\* the directives outside the comments of a text, in the order of the text
RECURSIVE directivesFrom(_, _)
directivesFrom(text, starts) ==
  IF starts = {} THEN <<>>
  ELSE <<directiveAt(text, firstIndex(starts))>>
       \o directivesFrom(text, starts \ {firstIndex(starts)})

\* the text without the directives outside its comments
withoutDirectives(text) ==
  LET removed ==
        {j \in 1..Len(text) :
           \E i \in directiveStarts(text) :
             i <= j /\ j < i + Len(directiveAt(text, i))}
      RECURSIVE kept(_)
      kept(j) ==
        IF j > Len(text) THEN <<>>
        ELSE (IF j \in removed THEN <<>> ELSE <<text[j]>>) \o kept(j + 1)
  IN  kept(1)

\* C16: every directive outside a comment, wherever placed and several on one
\* line included, is extracted, applied to the configuration and removed, so
\* the text handed to the lexer holds no directive; text inside a comment is
\* never extracted as a directive.
C16_DirectivesExtracted ==
  [][Preprocess =>
       /\ returned' = withoutDirectives(called.sourceCode)
       /\ directiveStarts(returned') = {}
       /\ configurationOptions' =
            parseArguments(
              directivesFrom(called.sourceCode, directiveStarts(called.sourceCode)),
              configurationOptions, MinimumConfiguration, <<>>).table]_vars

(***************************************************************************)
(* C17: the number of tokens of an argument                                *)
(***************************************************************************)
\* one argument about to be processed
InitArguments ==
  /\ Start(<<>>, MinimumConfiguration, "called")
  /\ \E argument \in Arguments :
       called = [method |-> "argumentProcess", listOfArguments |-> <<argument>>]
  /\ returned = <<>>

SpecArguments == InitArguments /\ [][ArgumentProcess]_vars

\* the number of tokens of the argument
numberOfTokens == Len(tokeniseArgument(called.listOfArguments[1]))

\* a "Syntax Error" was recorded
syntaxError(errors) ==
  \E e \in DOMAIN errors :
    errors[e] \in {"Syntax Error: A Key : Value pair was not found",
                   "Syntax Error: Should only contain a single Key : Value pair"}

\* C17 as stated: an argument that tokenizes to zero tokens, or to three or
\* more, records a "Syntax Error" and leaves the configuration unchanged; only
\* an argument of exactly two tokens can update the configuration.
C17_TokenCountAsWritten ==
  [][ArgumentProcess =>
       /\ numberOfTokens = 0 \/ numberOfTokens >= 3 =>
            /\ syntaxError(reportedErrors')
            /\ configurationOptions' = configurationOptions
       /\ configurationOptions' # configurationOptions => numberOfTokens = 2]_vars

\* C17 amended: an argument of zero tokens is skipped, with no error recorded
\* and the configuration unchanged; an argument of one token, or of three or
\* more, records a "Syntax Error" and leaves the configuration unchanged; only
\* an argument of exactly two tokens can update the configuration.
C17_TokenCount ==
  [][ArgumentProcess =>
       /\ numberOfTokens = 0 =>
            /\ reportedErrors' = <<>>
            /\ configurationOptions' = configurationOptions
       /\ numberOfTokens = 1 \/ numberOfTokens >= 3 =>
            /\ syntaxError(reportedErrors')
            /\ stage' = "terminated"
            /\ configurationOptions' = configurationOptions
       /\ configurationOptions' # configurationOptions => numberOfTokens = 2]_vars

\* an argument of three tokens was rejected with a "Syntax Error", the
\* configuration as it was
C17_Witness ==
  /\ stage = "terminated"
  /\ called.method = "argumentProcess"
  /\ numberOfTokens = 3
  /\ syntaxError(reportedErrors)
  /\ configurationOptions = MinimumConfiguration

(***************************************************************************)
(* C18: the END tokens of a lexed text                                     *)
(***************************************************************************)
\* a source text about to be lexed
InitLex ==
  /\ Start(<<>>, MinimumConfiguration, "called")
  /\ \E text \in LexerTexts : called = [method |-> "lex", sourceCode |-> text]
  /\ returned = <<>>

SpecLex == InitLex /\ [][Lex]_vars

\* the positions of the END tokens of a token stream
ends(tokens) == {i \in 1..Len(tokens) : tokens[i].tokenType = TypedToken.END}

\* C18: for every non-empty source text, a text of only whitespace, line
\* breaks or comments included, the lexer raises no exception and, unless it
\* recorded lexing errors, returns a token stream that ends with an END token
\* and holds no two consecutive END tokens.
C18_EndTokens ==
  [][Lex /\ called.sourceCode # <<>> =>
       /\ raised' # "IndexError"
       /\ raised' = "" =>
            /\ returned' # <<>>
            /\ Len(returned') \in ends(returned')
            /\ \A i \in ends(returned') : i + 1 \notin ends(returned')]_vars

(***************************************************************************)
(* C19: the source operand of a branch instruction                         *)
(***************************************************************************)
\* the messages __analyseBranchOperand records
branchErrors ==
  {"Attempting to branch to non-existent location",
   "Source operand in branch instruction must be addressed in DIRECT mode",
   "Source operand in branch instruction must be a branch label"}

\* the source operands of the branch instructions of a token stream, as the
\* analyser fetches them
branchOperands(tokenStream) ==
  {getOperand(tokenStream, i + 1).operand :
     i \in {j \in 1..(Len(tokenStream) - 1) :
              /\ tokenStream[j].tokenType = TypedToken.INSTRUCTION
              /\ tokenStream[j].tokenValue \in BRANCH_INSTRUCTIONS
              /\ tokenStream[j + 1].tokenType # TypedToken.END}}

\* a label in DIRECT mode that names, in the local pool first and then in
\* the global pool, a branch label or a procedure label
namesTarget(operand, localTable, globalTable) ==
  /\ operand.addressingMode.tokenValue = DIRECT_ADDRESSING_MODE
  /\ operand.operandValue.tokenType = TypedToken.LABEL
  /\ LET labelSymbol == lookup(operand.operandValue.tokenValue, localTable, globalTable)
     IN  /\ labelSymbol # NULL
         /\ labelSymbol.labelType \in {SymbolTable.BRANCH_LABEL,
                                        SymbolTable.PROCEDURE_LABEL}

\* the instruction pools about to be analysed
poolsToAnalyse == {mainPool} \cup {procedurePools[i] : i \in DOMAIN procedurePools}

\* C19: the semantic analyser records an error for the source operand of a
\* BRA, BRZ or BRP unless it is a LABEL in DIRECT mode that resolves, in the
\* local pool first and then in the global pool, to a BRANCH or PROCEDURE
\* label: a label that resolves to a VARIABLE is rejected, a label declared
\* only in the global pool is accepted inside a procedure.
C19_BranchOperand ==
  [][SemanticAnalyse =>
       ((\A message \in branchErrors : ~recorded(message, reportedErrors'))
          <=> \A pool \in poolsToAnalyse :
                \A operand \in branchOperands(pool.tokenStream) :
                  namesTarget(operand, pool.symbolTable, mainPool.symbolTable))]_vars

(***************************************************************************)
(* C20: the cells of zero-operand and one-operand instructions             *)
(***************************************************************************)
\* the cells of the image that hold an instruction of a given number of
\* operands, each with the mnemonic of its instruction
cellsOf(numberOfInstructionOperands) ==
  {[mnemonic |-> laidOutPools[i].tokenStream[k].tokenValue,
    cell |-> generatedChadsemblyCode[
               baseOffset(i) + instructionsBefore(laidOutPools[i].tokenStream, k) + 1]] :
     <<i, k>> \in
       {<<j, l>> \in
          UNION {{j} \X DOMAIN laidOutPools[j].tokenStream : j \in DOMAIN laidOutPools} :
          /\ laidOutPools[j].tokenStream[l].tokenType = TypedToken.INSTRUCTION
          /\ NUMBER_OF_INSTRUCTION_OPERANDS[laidOutPools[j].tokenStream[l].tokenValue]
               = numberOfInstructionOperands}}

\* the four fields of a cell: opcode, addressing mode, source, destination
fieldsOf(cell) ==
  LET M == codeGenerator.numberOfMachineOperationBits
      A == codeGenerator.numberOfAddressingModeBits
      O == codeGenerator.numberOfOperandBits
  IN  [opcode |-> SubSeq(cell, 1, M),
       mode |-> SubSeq(cell, M + 1, M + A),
       source |-> SubSeq(cell, M + A + 1, M + A + O),
       destination |-> SubSeq(cell, M + A + O + 1, Len(cell))]

allZero(field) == \A i \in DOMAIN field : field[i] = "0"

\* a zero-operand instruction is emitted as its opcode, the code of an
\* addressing mode and two operand fields that are all zero; a one-operand
\* instruction is emitted with its destination field all zero
emittedWith(addressingMode) ==
  stage = "generated" =>
    /\ \A emitted \in cellsOf(0) :
         /\ Len(emitted.cell) = codeGenerator.totalNumberOfInstructionBits
         /\ Len(fieldsOf(emitted.cell).opcode) = codeGenerator.numberOfMachineOperationBits
         /\ readUnsignedInteger(fieldsOf(emitted.cell).opcode)
              = INSTRUCTION_SET[emitted.mnemonic]
         /\ readUnsignedInteger(fieldsOf(emitted.cell).mode)
              = ADDRESSING_MODE_TO_OPCODE[addressingMode]
         /\ allZero(fieldsOf(emitted.cell).source)
         /\ allZero(fieldsOf(emitted.cell).destination)
    /\ \A emitted \in cellsOf(1) :
         /\ Len(fieldsOf(emitted.cell).destination) = codeGenerator.numberOfOperandBits
         /\ allZero(fieldsOf(emitted.cell).destination)

\* C20 as written: a zero-operand instruction (HLT, NOP, RET) is emitted as
\* its M-bit opcode, then the A-bit code of the DIRECT addressing mode (2),
\* then two O-bit operand fields that are all zero; a one-operand instruction
\* is emitted with its destination field all zero.
C20_DefaultOperandsAsWritten == emittedWith(DIRECT_ADDRESSING_MODE)

\* C20: a zero-operand instruction (HLT, NOP, RET) is emitted as its M-bit
\* opcode, then the A-bit code of the REGISTER addressing mode (0), then two
\* O-bit operand fields that are all zero, so every bit after the opcode is
\* zero; a one-operand instruction is emitted with its destination field all
\* zero.
C20_DefaultOperands == emittedWith(REGISTER_ADDRESSING_MODE)

\* the image of NOP / CALL FIRST / CALL SECOND / OUT %REG1 / HLT and its two
\* procedures: NOP is the opcode 4 and zeros, CALL FIRST has a source field
C20_Witness ==
  /\ stage = "generated"
  /\ streamOfTokens = Program.twoCalls
  /\ Cardinality({emitted.mnemonic : emitted \in cellsOf(0)}) = 3
  /\ string(generatedChadsemblyCode[1]) = "00100000000000000000"
  /\ readUnsignedInteger(fieldsOf(generatedChadsemblyCode[2]).opcode)
       = INSTRUCTION_SET.CALL
  /\ ~allZero(fieldsOf(generatedChadsemblyCode[2]).source)
  /\ allZero(fieldsOf(generatedChadsemblyCode[2]).destination)

(***************************************************************************)
(* C21: the words REGISTER, REG and R                                      *)
(***************************************************************************)
\* a word about to be lexed
InitWords ==
  /\ Start(<<>>, MinimumConfiguration, "called")
  /\ \E text \in RegisterWords : called = [method |-> "lex", sourceCode |-> text]
  /\ returned = <<>>

SpecWords == InitWords /\ [][Lex]_vars

\* the digits a word ends in
suffixOf(word) ==
  LET after == {i \in 0..Len(word) :
                  \A j \in (i + 1)..Len(word) : word[j] \in VALUE_CHARACTERS}
  IN  SubSeq(word, firstIndex(after) + 1, Len(word))

\* the word without the digits it ends in, upper-cased
keywordOf(word) == string(upperCased(SubSeq(word, 1, Len(word) - Len(suffixOf(word)))))

\* the lexer returns one token of a type and a lexeme, closed by END
lexedAs(tokenType, lexeme) ==
  /\ raised' = ""
  /\ Len(returned') = 2
  /\ returned'[1] = Token(tokenType, lexeme)
  /\ returned'[2].tokenType = TypedToken.END

\* each of REGISTER, REG and R followed by digits is a REGISTER token whose
\* lexeme is the digits
suffixedRegister ==
  keywordOf(called.sourceCode) \in {"REGISTER", "REG", "R"}
    /\ suffixOf(called.sourceCode) # <<>>
  => lexedAs(TypedToken.REGISTER, string(suffixOf(called.sourceCode)))

\* C21 as written: the bare words REGISTER, REG and R, in any letter case,
\* are lexed as ADDRESSING_MODE tokens with the lexeme %, and each of them
\* followed by one or more digits as a REGISTER token whose lexeme is the
\* digit suffix.
C21_RegisterWordsAsWritten ==
  [][Lex =>
       /\ keywordOf(called.sourceCode) \in {"REGISTER", "REG", "R"}
            /\ suffixOf(called.sourceCode) = <<>>
          => lexedAs(TypedToken.ADDRESSING_MODE, REGISTER_ADDRESSING_MODE)
       /\ suffixedRegister]_vars

\* C21: the bare word REGISTER, in any letter case, is lexed as an
\* ADDRESSING_MODE token with the lexeme %; the bare words REG and R are
\* lexed as LABEL tokens; each of the three followed by one or more digits is
\* lexed as a REGISTER token whose lexeme is the digit suffix.
C21_RegisterWords ==
  [][Lex =>
       /\ keywordOf(called.sourceCode) = "REGISTER"
            /\ suffixOf(called.sourceCode) = <<>>
          => lexedAs(TypedToken.ADDRESSING_MODE, REGISTER_ADDRESSING_MODE)
       /\ keywordOf(called.sourceCode) \in {"REG", "R"}
            /\ suffixOf(called.sourceCode) = <<>>
          => lexedAs(TypedToken.LABEL, keywordOf(called.sourceCode))
       /\ suffixedRegister]_vars

\* reg07 was lexed as the register 07
C21_Witness ==
  /\ stage = "lexed"
  /\ called.method = "lex"
  /\ called.sourceCode = <<"r", "e", "g", "0", "7">>
  /\ returned[1] = Token(TypedToken.REGISTER, "07")

(***************************************************************************)
(* C22: the cells of the variables                                         *)
(***************************************************************************)
\* the identifier of the pool a position of the lexed stream belongs to: the
\* label in front of the brace that is open there, else the global pool
poolAt(k) ==
  LET opened ==
        {l \in 1..(k - 1) :
           /\ streamOfTokens[l].tokenType = TypedToken.LEFT_BRACE
           /\ \A r \in l..(k - 1) :
                streamOfTokens[r].tokenType # TypedToken.RIGHT_BRACE}
      last(indexes) == CHOOSE i \in indexes : \A j \in indexes : j <= i
      labelled(l) ==
        streamOfTokens[last({j \in 1..(l - 1) :
                               streamOfTokens[j].tokenType # TypedToken.END})].tokenValue
  IN  IF opened = {} THEN GLOBAL_INSTRUCTION_POOL_IDENTIFIER
      ELSE labelled(last(opened))

\* the positions of the lexed stream that declare a variable in a pool
variableDeclarations(identifier) ==
  {k \in 1..(Len(streamOfTokens) - 1) :
     /\ streamOfTokens[k].tokenType = TypedToken.LABEL
     /\ streamOfTokens[k + 1].tokenType = TypedToken.ASSEMBLY_DIRECTIVE
     /\ poolAt(k) = identifier}

\* the initializer of the last declaration of a variable in a pool
lastInitializer(identifier, label) ==
  LET declared == {k \in variableDeclarations(identifier) :
                     convertToCasing(streamOfTokens[k].tokenValue) = label}
      k == CHOOSE i \in declared : \A j \in declared : j <= i
  IN  IF streamOfTokens[k + 2].tokenType = TypedToken.VALUE
      THEN int(streamOfTokens[k + 2].tokenValue)
      ELSE int(DEFAULT_VARIABLE_VALUE)

\* the number of instructions the lexed stream holds in a pool
instructionsIn(identifier) ==
  Cardinality({k \in 1..Len(streamOfTokens) :
                 /\ streamOfTokens[k].tokenType = TypedToken.INSTRUCTION
                 /\ poolAt(k) = identifier})

\* the number of variables the lexed stream declares in a pool
variablesIn(identifier) ==
  Cardinality({convertToCasing(streamOfTokens[k].tokenValue) :
                 k \in variableDeclarations(identifier)})

\* the image index after the instructions of the i-th laid out pool
RECURSIVE endOfInstructions(_)
endOfInstructions(i) ==
  instructionsIn(laidOutPools[i].identifier)
  + (IF i = 1 THEN 0
     ELSE endOfInstructions(i - 1) + variablesIn(laidOutPools[i - 1].identifier))

\* the variable symbols: the laid out pool and the place in its symbol table
variableSymbols ==
  {e \in UNION {{i} \X DOMAIN laidOutPools[i].symbolTable : i \in DOMAIN laidOutPools} :
     laidOutPools[e[1]].symbolTable[e[2]].labelType = SymbolTable.VARIABLE_LABEL}

symbolOf(e) == laidOutPools[e[1]].symbolTable[e[2]]

\* C22: after code generation every VARIABLE symbol's value is an image
\* index distinct from every other variable's, lies in the block of cells
\* placed immediately after the instructions of the variable's own pool
\* (global pool first, then the procedures in one fixed order), and the image
\* cell at that index equals signedInteger(initializer, W) for the last
\* initializer declared for that variable.
C22_VariableCells ==
  stage = "generated" =>
    /\ \A e \in variableSymbols :
         /\ symbolOf(e).labelValue >= endOfInstructions(e[1])
         /\ symbolOf(e).labelValue
              < endOfInstructions(e[1]) + variablesIn(laidOutPools[e[1]].identifier)
         /\ symbolOf(e).labelValue < Len(generatedChadsemblyCode)
         /\ generatedChadsemblyCode[symbolOf(e).labelValue + 1]
              = signedInteger(lastInitializer(laidOutPools[e[1]].identifier,
                                              symbolOf(e).label),
                              codeGenerator.totalNumberOfInstructionBits)
    /\ \A e, f \in variableSymbols :
         e # f => symbolOf(e).labelValue # symbolOf(f).labelValue
    /\ \A i \in DOMAIN laidOutPools :
         Cardinality({e \in variableSymbols : e[1] = i})
           = variablesIn(laidOutPools[i].identifier)

\* the image of the program with the variables X and Z of the global pool, X
\* and Y of P and Z of Q has been generated
C22_Witness ==
  /\ stage = "generated"
  /\ streamOfTokens = Program.variables
  /\ Cardinality(variableSymbols) = 5
  /\ {symbolOf(e).labelValue : e \in variableSymbols} = {5, 6, 9, 10, 13}
  /\ readSignedInteger(generatedChadsemblyCode[6]) = -3
  /\ readSignedInteger(generatedChadsemblyCode[10]) = 7

(***************************************************************************)
(* C23: the block scope of the pre-parse                                   *)
(***************************************************************************)
InitScopes ==
  /\ \E stream \in Scopes : Start(stream, MinimumConfiguration, "lexed")
  /\ NoCall

SpecScopes == InitScopes /\ [][Parse]_vars

\* whether a scope is open after the first i tokens of a stream: a LEFT_BRACE
\* opens, a RIGHT_BRACE closes
scopeOpenAfter(stream, i) ==
  LET open[k \in Nat] ==
        IF k = 0 THEN FALSE
        ELSE CASE stream[k].tokenType = TypedToken.LEFT_BRACE -> TRUE
               [] stream[k].tokenType = TypedToken.RIGHT_BRACE -> FALSE
               [] OTHER -> open[k - 1]
  IN  open[i]

\* the braces of a stream, in order
bracesOf(stream) ==
  SelectSeq(stream, LAMBDA token : token.tokenType \in {TypedToken.LEFT_BRACE,
                                                         TypedToken.RIGHT_BRACE})

\* the number of errors recorded with a message
numberRecorded(message, errors) ==
  Cardinality({e \in DOMAIN errors : errors[e] = message})

\* C23: the pre-parse tracks one open or closed block scope over the token
\* stream: every LEFT_BRACE met while a scope is open records an error, every
\* RIGHT_BRACE met while no scope is open records an error, and reaching the
\* end of the stream with a scope open records an error; a stream with no
\* such error has braces that alternate LEFT, RIGHT, LEFT, RIGHT and end
\* closed.
C23_BlockScope ==
  [][Parse =>
       /\ numberRecorded("Cannot open new block scope until previous one was closed",
                         reportedErrors')
            = Cardinality({i \in DOMAIN streamOfTokens :
                             /\ streamOfTokens[i].tokenType = TypedToken.LEFT_BRACE
                             /\ scopeOpenAfter(streamOfTokens, i - 1)})
       /\ numberRecorded(
            "Attempting to close a block scope when no block scope was opened to begin with",
            reportedErrors')
            = Cardinality({i \in DOMAIN streamOfTokens :
                             /\ streamOfTokens[i].tokenType = TypedToken.RIGHT_BRACE
                             /\ ~scopeOpenAfter(streamOfTokens, i - 1)})
       /\ recorded("Block scope was opened but never closed", reportedErrors')
            <=> scopeOpenAfter(streamOfTokens, Len(streamOfTokens))
       /\ (\A e \in DOMAIN reportedErrors' : reportedErrors'[e] = "Unexpected token")
            => /\ Len(bracesOf(streamOfTokens)) % 2 = 0
               /\ \A b \in DOMAIN bracesOf(streamOfTokens) :
                    bracesOf(streamOfTokens)[b].tokenType
                      = IF b % 2 = 1 THEN TypedToken.LEFT_BRACE
                        ELSE TypedToken.RIGHT_BRACE]_vars

\* P { / } / P { / } passed the pre-parse: two scopes opened and closed
C23_Witness ==
  /\ stage # "lexed"
  /\ Len(bracesOf(streamOfTokens)) = 4
  /\ Len(streamOfTokens) \in 5..8
  /\ streamOfTokens \in Scopes
  /\ reportedErrors = <<>>

(***************************************************************************)
(* C24: the loader                                                         *)
(***************************************************************************)
\* the number of memory cells and the keys of the registers
numberOfCells == 2^(codeGenerator.numberOfOperandBits - 1)

registerKeys ==
  {0 - register :
     register \in 1..(configurationOptions.REGISTERS + NUMBER_OF_SPECIAL_PURPOSE_REGISTERS)}

\* C24: the loader refuses an image longer than the number of memory cells,
\* 2^(O-1), with a runtime error before any instruction is executed;
\* otherwise memory key i holds image cell i for every i below the length of
\* the image, and every other cell and every register, the program counter
\* included, holds W zero bits.
C24_Loader ==
  [][Load =>
       IF Len(generatedChadsemblyCode) > numberOfCells
       THEN /\ stage' = "terminated"
            /\ raised' = "runtime error"
            /\ stdout' = <<>>
            /\ programCounter' = programCounter
       ELSE /\ stage' = "running"
            /\ DOMAIN memoryPool' = (0..(numberOfCells - 1)) \cup registerKeys
            /\ programCounterAddress \in registerKeys
            /\ \A key \in DOMAIN memoryPool' :
                 memoryPool'[key] =
                   IF key \in 0..(Len(generatedChadsemblyCode) - 1)
                   THEN generatedChadsemblyCode[key + 1]
                   ELSE [bit \in 1..codeGenerator.totalNumberOfInstructionBits |-> "0"]]_vars

\* an image of one cell more than the memory was refused
C24_Witness ==
  /\ stage = "terminated"
  /\ raised = "runtime error"
  /\ codeGenerator.numberOfOperandBits > 0
  /\ Len(generatedChadsemblyCode) = numberOfCells + 1
  /\ stdout = <<>>

(***************************************************************************)
(* C25: the arithmetic shift to the left                                   *)
(***************************************************************************)
\* the strings of two to MaxBits bits
BinaryStrings == UNION {[1..W -> {"0", "1"}] : W \in 2..MaxBits}

\* a binary string about to be shifted
InitShift ==
  /\ Start(<<>>, MinimumConfiguration, "called")
  /\ \E binaryString \in BinaryStrings :
       called = [method |-> "arithmeticShiftLeft", binaryString |-> binaryString]
  /\ returned = <<>>

\* BinaryString.arithmeticShiftLeft(binaryString)
ArithmeticShiftLeft ==
  /\ stage = "called"
  /\ called.method = "arithmeticShiftLeft"
  /\ stage' = "shifted"
  /\ returned' = arithmeticShiftLeft(called.binaryString)
  /\ UNCHANGED <<raised, streamOfTokens, reportedErrors, procedurePools, mainPool,
                 configurationOptions, codeGenerator, generatedChadsemblyCode,
                 memoryPool, programCounter, stdin, stdout, called>>

SpecShift == InitShift /\ [][ArithmeticShiftLeft]_vars

\* C25: arithmeticShiftLeft sends the second bit from the left to the carry
\* and preserves the sign bit: for a width of two bits or more the leftmost
\* bit of the result is the leftmost bit of the input.
C25_ShiftLeftSign ==
  stage = "shifted" =>
    /\ returned[1] = called.binaryString[2]
    /\ Len(returned[2]) = Len(called.binaryString)
    /\ returned[2][1] = called.binaryString[1]

(***************************************************************************)
(* C26: the number of a general purpose register                           *)
(***************************************************************************)
\* a general purpose register token of number 1 or more, written with or
\* without a leading zero, and the number of general purpose registers
InitRegister ==
  /\ Start(<<>>, MinimumConfiguration, "called")
  /\ \E v \in 1..MaxRegisterNumber, G \in MinimumConfiguration.REGISTERS..MaxRegisters,
        zero \in {"", "0"} :
       called = [method |-> "resolveRegister",
                 registerToken |-> Token(TypedToken.REGISTER, zero \o ToString(v)),
                 numberOfGeneralPurposeRegisters |-> G]
  /\ returned = <<>>

\* CodeGenerator.__resolveRegister(registerToken, instructionPool)
ResolveRegister ==
  /\ stage = "called"
  /\ called.method = "resolveRegister"
  /\ stage' = "resolved"
  /\ returned' = resolveRegister(called.registerToken,
                                 called.numberOfGeneralPurposeRegisters)
  /\ UNCHANGED <<raised, streamOfTokens, reportedErrors, procedurePools, mainPool,
                 configurationOptions, codeGenerator, generatedChadsemblyCode,
                 memoryPool, programCounter, stdin, stdout, called>>

SpecRegister == InitRegister /\ [][ResolveRegister]_vars

C27_FixedKeys ==
  /\ loaded => DOMAIN memoryPool = (0..(numberOfCells - 1)) \cup registerKeys
  /\ [][Cycle => DOMAIN memoryPool' = DOMAIN memoryPool]_vars

(***************************************************************************)
(* C28: the END that closes the last statement of a pool                   *)
(***************************************************************************)
\* whether a token stream is empty or closed by an END
closedByEnd(tokenStream) ==
  \/ tokenStream = <<>>
  \/ tokenStream[Len(tokenStream)].tokenType = TypedToken.END

\* C28: every instruction pool the split pass produces from a token stream
\* that passed the pre-parse has a token stream whose last statement is
\* terminated by an END token, also when the closing brace of a procedure
\* follows an instruction on the same line; label classification, operand
\* counting and variable removal never scan past the end of a pool.
C28_StatementsEnd ==
  [][/\ (/\ Parse
         /\ preparse(streamOfTokens) = <<>>
         /\ ~getInstructionPools(streamOfTokens).crashed) =>
          /\ raised' # "IndexError"
          /\ closedByEnd(getInstructionPools(streamOfTokens).globalTokens)
          /\ \A i \in DOMAIN getInstructionPools(streamOfTokens).pools :
               closedByEnd(getInstructionPools(streamOfTokens).pools[i].tokenStream)
     /\ SemanticAnalyse => raised' # "IndexError"]_vars

(***************************************************************************)
(* C29: a call made inside a procedure                                     *)
(***************************************************************************)
\* the address of the procedure an instruction address lies in
procedureOf(address) ==
  CHOOSE p \in procedureAddresses :
    /\ p <= address
    /\ \A q \in procedureAddresses : q <= address => q <= p

\* the addresses of the calls of a procedure
callsOf(procedure) ==
  {c \in 0..(Len(generatedChadsemblyCode) - 1) :
     /\ decode(memoryPool[c], codeGenerator).machineOperation = INSTRUCTION_SET.CALL
     /\ decode(memoryPool[c], codeGenerator).sourceOperand = procedure}

\* C29 as written: calls nest: when P is called from a and calls Q from b, the
\* RET of Q resumes at b + 1 and the later RET of P at a + 1: every RET of a
\* procedure resumes after a CALL of that procedure, so the program of two
\* nested calls, whose procedures end in RET and whose main code ends in HLT,
\* eventually halts.
C29_CallsNest ==
  /\ [][(/\ fetching
          /\ fetched.machineOperation = INSTRUCTION_SET.RET
          /\ \E p \in procedureAddresses : p <= fetchAddress) =>
          \E c \in callsOf(procedureOf(fetchAddress)) :
            readSignedInteger(memoryPool'[programCounterAddress]) = c + 1]_vars
  /\ (streamOfTokens = Program.nested) ~> (raised = "exit(0)")

\* the RET that follows a CALL is about to be fetched while the return
\* register holds its own address: the called procedure has returned to it
returnedToReturn ==
  /\ fetching
  /\ fetched.machineOperation = INSTRUCTION_SET.RET
  /\ fetchAddress >= 1
  /\ decode(memoryPool[fetchAddress - 1], codeGenerator).machineOperation
       = INSTRUCTION_SET.CALL
  /\ readSignedInteger(memoryPool[returnRegisterAddress]) = fetchAddress

\* C29: calls do not nest, there is one return register: when P is called from
\* a and calls Q from b, the RET of Q resumes at b + 1 and the later RET of P
\* resumes at b + 1 again, not at a + 1; when the instruction at b + 1 is that
\* RET the program executes it for ever and never halts.
C29_CallsDoNotNest ==
  /\ [](returnedToReturn => [](returnedToReturn /\ raised = ""))
  /\ (streamOfTokens = Program.nested) ~> returnedToReturn

\* the RET of P was executed and is to be fetched again
C29_Witness ==
  /\ streamOfTokens = Program.nested
  /\ returnedToReturn
  /\ programCounter = fetchAddress

(***************************************************************************)
(* C30: a cell of zero bits                                                *)
(***************************************************************************)
\* the source text has no HLT
noHalt ==
  \A i \in DOMAIN streamOfTokens :
    ~(/\ streamOfTokens[i].tokenType = TypedToken.INSTRUCTION
      /\ streamOfTokens[i].tokenValue = "HLT")

\* no cell of the image branches to its own address or to one before it, none
\* returns, and no operand names the program counter
forwardOnly ==
  /\ \A i \in DOMAIN generatedChadsemblyCode :
       LET cell == decode(generatedChadsemblyCode[i], codeGenerator)
       IN  /\ cell.machineOperation # INSTRUCTION_SET.RET
           /\ cell.machineOperation \in {INSTRUCTION_SET.BRA, INSTRUCTION_SET.BRZ,
                                         INSTRUCTION_SET.BRP, INSTRUCTION_SET.CALL}
                => cell.sourceOperand > i - 1
  /\ \A i \in DOMAIN streamOfTokens :
       (/\ streamOfTokens[i].tokenType = TypedToken.REGISTER
        /\ streamOfTokens[i].tokenValue \in DOMAIN SPECIAL_PURPOSE_REGISTERS)
         => SPECIAL_PURPOSE_REGISTERS[streamOfTokens[i].tokenValue] # PROGRAM_COUNTER

C30_VariableCell ==
  /\ streamOfTokens = Program.intoVariable
  /\ raised = "exit(0)"
  /\ programCounter = 3
  /\ Len(generatedChadsemblyCode) = 4

====
